---- MODULE Spec2Model ----
(***************************************************************************)
(* A model of rcc, a compiler for a small subset of C:                     *)
(*   source text -> lexer -> tokens -> parser -> AST -> generator ->       *)
(*   x86 assembly.                                                         *)
(* Source text is a sequence of one-character strings, tokens and AST      *)
(* nodes are tagged tuples, and each stage is an operator computed the way *)
(* the Rust code computes it.                                              *)
(***************************************************************************)
EXTENDS Integers, Sequences, FiniteSets, TLC

VARIABLES
    source,   \* the text of the input file (lexer input)
    tokens,   \* the token sequence (lexer output, parser input)
    ast,      \* the AST (parser output, generator input)
    code,     \* the generated instruction sequence
    err,      \* the error that ended the pipeline, NoError while none has
    stage,    \* which artefact the pipeline holds
    runs,     \* how many times the pipeline has run on this input
    first,    \* the outcome of the first run
    cpu,      \* the abstract x86 machine executing `code`
    env,      \* what compile sees around it: the files and the toolchain
    fs,       \* the files of one directory, by name (concurrent calls)
    calls     \* the calls of compile in progress, each with its locals

vars == <<source, tokens, ast, code, err, stage, runs, first, cpu, env, fs, calls>>

(***************************************************************************)
(* Tokens: lexer.rs Token, with the binary-operator kinds parser.rs        *)
(* matches on.  A token is <<kind, payload>>.                              *)
(***************************************************************************)
OpenBrace == <<"OpenBrace">>
CloseBrace == <<"CloseBrace">>
OpenParen == <<"OpenParen">>
CloseParen == <<"CloseParen">>
Semicolon == <<"Semicolon">>
Minus == <<"Minus">>
Tilde == <<"Tilde">>
Bang == <<"Bang">>
Plus == <<"Plus">>
Asterisk == <<"Asterisk">>
Slash == <<"Slash">>
IntKw == <<"IntKw">>
ReturnKw == <<"ReturnKw">>
Identifier(s) == <<"Identifier", s>>
IntLiteral(n) == <<"IntLiteral", n>>

Kind(t) == t[1]

(***************************************************************************)
(* AST: ast.rs.                                                            *)
(***************************************************************************)
NodeProgram(n) == <<"Node::Program", n>>
NodeFunction(id, n) == <<"Node::Function", id, n>>
NodeStatement(st, e) == <<"Node::Statement", st, e>>
ExprTerm(t) == <<"Expr::Term", t>>
TermFactor(f) == <<"Term::Factor", f>>
TermBinOp(op, t1, t2) == <<"Term::BinOp", op, t1, t2>>
FactorExpr(e) == <<"Factor::Expr", e>>
FactorUnOp(op, f) == <<"Factor::UnOp", op, f>>
FactorIntLiteral(n) == <<"Factor::IntLiteral", n>>
FactorBinOp(op, f1, f2) == <<"Factor::BinOp", op, f1, f2>>

UnOp == {"Negate", "Complement", "LogicalNegate"}
BinOp == {"Add", "Subtract", "Multiply", "Divide"}

(***************************************************************************)
(* Errors: error.rs SyntaxError, as <<kind>> or <<kind, text>>.  A         *)
(* Box<dyn Error> made from a message is <<"Message", text>>.              *)
(***************************************************************************)
NoError == <<"NoError">>
NoNode == <<"NoNode">>
Unknown == <<"Unknown">>
MissingOpenParen == <<"MissingOpenParen">>
MissingCloseParen == <<"MissingCloseParen">>
MissingOpenBrace == <<"MissingOpenBrace">>
MissingCloseBrace == <<"MissingCloseBrace">>
MissingSemicolon == <<"MissingSemicolon">>
MissingIdentifier == <<"MissingIdentifier">>
MissingKeyword(kw) == <<"MissingKeyword", kw>>
InvalidIdentifier(text) == <<"InvalidIdentifier", text>>
InvalidExpression == <<"InvalidExpression">>
UnexpectedToken == <<"UnexpectedToken">>
Message(text) == <<"Message", text>>

\* Result<T, Box<dyn Error>> of a parsing function, with the iterator's
\* position after the call: `pos` is the index of the next token to read.
Ok(val, pos) == [ok |-> TRUE, val |-> val, err |-> NoError, pos |-> pos]
Err(e, pos) == [ok |-> FALSE, val |-> NoNode, err |-> e, pos |-> pos]

(***************************************************************************)
(* Parser: parser.rs.  `toks` is the token vector and `i` the iterator's   *)
(* position; tokens.next() at i yields toks[i] and moves to i + 1, or      *)
(* yields None past the end.                                               *)
(***************************************************************************)
HasNext(toks, i) == i <= Len(toks)
Advance(toks, i) == IF HasNext(toks, i) THEN i + 1 ELSE i

token_to_unop(t) ==
    CASE t = Bang -> [ok |-> TRUE, op |-> "LogicalNegate", err |-> NoError]
      [] t = Minus -> [ok |-> TRUE, op |-> "Negate", err |-> NoError]
      [] t = Tilde -> [ok |-> TRUE, op |-> "Complement", err |-> NoError]
      [] OTHER -> [ok |-> FALSE, op |-> "", err |-> Message("Invalid unary operator")]

\* token_to_binop with the arms of Plus and Asterisk exchanged.
token_to_binop_exchanged(t) ==
    CASE t = Plus -> [ok |-> TRUE, op |-> "Multiply", err |-> NoError]
      [] t = Minus -> [ok |-> TRUE, op |-> "Subtract", err |-> NoError]
      [] t = Asterisk -> [ok |-> TRUE, op |-> "Add", err |-> NoError]
      [] t = Slash -> [ok |-> TRUE, op |-> "Divide", err |-> NoError]
      [] OTHER -> [ok |-> FALSE, op |-> "", err |-> Message("Invalid binary operator")]

token_to_binop(t) ==
    CASE t = Plus -> [ok |-> TRUE, op |-> "Add", err |-> NoError]
      [] t = Minus -> [ok |-> TRUE, op |-> "Subtract", err |-> NoError]
      [] t = Asterisk -> [ok |-> TRUE, op |-> "Multiply", err |-> NoError]
      [] t = Slash -> [ok |-> TRUE, op |-> "Divide", err |-> NoError]
      [] OTHER -> [ok |-> FALSE, op |-> "", err |-> Message("Invalid binary operator")]

RECURSIVE parse_factor(_, _)
RECURSIVE parse_term(_, _)
RECURSIVE parse_expression(_, _)
RECURSIVE parse_term_loop(_, _, _)
RECURSIVE parse_expression_loop(_, _, _)

\* Line 34: Factor::UnOp(token_to_unop(t)?, parse_factor(tokens)?), with
\* `op` and `f` the two results and `pos` the position after the operator.
factor_unop(op, f, pos) ==
    IF ~op.ok THEN Err(op.err, pos)
    ELSE IF ~f.ok THEN f
    ELSE Ok(FactorUnOp(op.op, f.val), f.pos)

\* factor_paren with the missing `)` reported as an invalid expression.
factor_paren_invalid(toks, e) ==
    IF ~e.ok THEN e
    ELSE IF HasNext(toks, e.pos) /\ toks[e.pos] = CloseParen
    THEN Ok(FactorExpr(e.val), e.pos + 1)
    ELSE Err(InvalidExpression, Advance(toks, e.pos))

\* Lines 37-41: `e` is the result of parse_expression(tokens) after `(`.
factor_paren(toks, e) ==
    IF ~e.ok THEN e
    ELSE IF HasNext(toks, e.pos) /\ toks[e.pos] = CloseParen
    THEN Ok(FactorExpr(e.val), e.pos + 1)
    ELSE Err(MissingCloseParen, Advance(toks, e.pos))

\* parse_factor reporting a token that cannot start a Factor as unexpected.
parse_factor_unexpected(toks, i) ==
    IF ~HasNext(toks, i) THEN Err(InvalidExpression, i)
    ELSE CASE Kind(toks[i]) = "IntLiteral" -> Ok(FactorIntLiteral(toks[i][2]), i + 1)
           [] toks[i] \in {Bang, Minus, Tilde} ->
                factor_unop(token_to_unop(toks[i]), parse_factor(toks, i + 1), i + 1)
           [] toks[i] = OpenParen -> factor_paren(toks, parse_expression(toks, i + 1))
           [] OTHER -> Err(UnexpectedToken, i + 1)

parse_factor(toks, i) ==
    IF ~HasNext(toks, i) THEN Err(InvalidExpression, i)
    ELSE CASE Kind(toks[i]) = "IntLiteral" -> Ok(FactorIntLiteral(toks[i][2]), i + 1)
           [] toks[i] \in {Bang, Minus, Tilde} ->
                factor_unop(token_to_unop(toks[i]), parse_factor(toks, i + 1), i + 1)
           [] toks[i] = OpenParen -> factor_paren(toks, parse_expression(toks, i + 1))
           [] OTHER -> Err(InvalidExpression, i + 1)

\* Lines 57-59: `op` is token_to_unop's result for the operator consumed,
\* `next_factor` the result of parse_factor after it; the fold, then the
\* next turn of the loop.
term_fold(toks, op, factor, next_factor, pos) ==
    IF ~op.ok THEN Err(op.err, pos)
    ELSE IF ~next_factor.ok THEN next_factor
    ELSE parse_term_loop(toks, next_factor.pos,
                         FactorBinOp(op.op, factor, next_factor.val))

\* parse_term's loop folding every binary operator in one tier.
parse_term_loop_flat(toks, i, factor) ==
    IF HasNext(toks, i) /\ toks[i] \in {Asterisk, Slash, Plus, Minus}
    THEN term_fold(toks, token_to_binop(toks[i]), factor, parse_factor(toks, i + 1), i + 1)
    ELSE Ok(TermFactor(factor), i)

\* The loop of lines 52-65, with `factor` the operand folded so far.
parse_term_loop(toks, i, factor) ==
    IF HasNext(toks, i) /\ toks[i] \in {Asterisk, Slash}
    THEN term_fold(toks, token_to_binop(toks[i]), factor, parse_factor(toks, i + 1), i + 1)
    ELSE Ok(TermFactor(factor), i)

\* Line 51, let mut factor = parse_factor(tokens)?, then the loop.
term_first(toks, f) == IF ~f.ok THEN f ELSE parse_term_loop(toks, f.pos, f.val)

parse_term(toks, i) == term_first(toks, parse_factor(toks, i))

\* Lines 79-81, as term_fold.
expression_fold(toks, op, term, next_term, pos) ==
    IF ~op.ok THEN Err(op.err, pos)
    ELSE IF ~next_term.ok THEN next_term
    ELSE parse_expression_loop(toks, next_term.pos,
                               TermBinOp(op.op, term, next_term.val))

\* parse_expression's loop folding to the right: the operand of an operator
\* is the whole rest of the expression.
expression_fold_right(op, term, rest, pos) ==
    IF ~op.ok THEN Err(op.err, pos)
    ELSE IF ~rest.ok THEN rest
    ELSE Ok(ExprTerm(TermBinOp(op.op, term, rest.val[2])), rest.pos)

parse_expression_loop_right(toks, i, term) ==
    IF HasNext(toks, i) /\ toks[i] \in {Plus, Minus}
    THEN expression_fold_right(token_to_binop(toks[i]), term,
                               parse_expression(toks, i + 1), i + 1)
    ELSE Ok(ExprTerm(term), i)

\* The loop of lines 74-87, with `term` the operand folded so far.
parse_expression_loop(toks, i, term) ==
    IF HasNext(toks, i) /\ toks[i] \in {Plus, Minus}
    THEN expression_fold(toks, token_to_binop(toks[i]), term, parse_term(toks, i + 1), i + 1)
    ELSE Ok(ExprTerm(term), i)

\* Line 73, let mut term = parse_term(tokens)?, then the loop.
expression_first(toks, t) ==
    IF ~t.ok THEN t ELSE parse_expression_loop(toks, t.pos, t.val)

parse_expression(toks, i) == expression_first(toks, parse_term(toks, i))

\* statement_return taking the end of the tokens for a `;`.
statement_return_lenient(toks, expr) ==
    IF ~expr.ok THEN expr
    ELSE IF ~HasNext(toks, expr.pos) THEN Ok(NodeStatement("Return", expr.val), expr.pos)
    ELSE IF toks[expr.pos] = Semicolon
    THEN Ok(NodeStatement("Return", expr.val), expr.pos + 1)
    ELSE Err(MissingSemicolon, Advance(toks, expr.pos))

\* Lines 97-103: `expr` is the result of parse_expression after `return`.
statement_return(toks, expr) ==
    IF ~expr.ok THEN expr
    ELSE IF HasNext(toks, expr.pos) /\ toks[expr.pos] = Semicolon
    THEN Ok(NodeStatement("Return", expr.val), expr.pos + 1)
    ELSE Err(MissingSemicolon, Advance(toks, expr.pos))

\* parse_statement reporting a statement that does not start with `return`
\* as a missing keyword.
parse_statement_keyword(toks, i) ==
    IF HasNext(toks, i) /\ toks[i] = ReturnKw
    THEN statement_return(toks, parse_expression(toks, i + 1))
    ELSE Err(MissingKeyword("return"), Advance(toks, i))

parse_statement(toks, i) ==
    IF HasNext(toks, i) /\ toks[i] = ReturnKw
    THEN statement_return(toks, parse_expression(toks, i + 1))
    ELSE Err(UnexpectedToken, Advance(toks, i))

\* function_body taking the end of the tokens for a `}`.
function_body_lenient(toks, id, s) ==
    IF ~s.ok THEN s
    ELSE IF ~HasNext(toks, s.pos) \/ toks[s.pos] = CloseBrace
    THEN Ok(NodeFunction(id, s.val), Advance(toks, s.pos))
    ELSE Err(MissingCloseBrace, Advance(toks, s.pos))

\* Lines 119-125: `s` is the result of parse_statement after `{`, `id` the
\* function's identifier.
function_body(toks, id, s) ==
    IF ~s.ok THEN s
    ELSE IF HasNext(toks, s.pos) /\ toks[s.pos] = CloseBrace
    THEN Ok(NodeFunction(id, s.val), s.pos + 1)
    ELSE Err(MissingCloseBrace, Advance(toks, s.pos))

\* parse_function looking for the `{` before the `)`.
parse_function_reordered(toks, i) ==
    IF ~(HasNext(toks, i) /\ toks[i] = IntKw)
    THEN Err(MissingKeyword("int"), Advance(toks, i))
    ELSE IF ~(HasNext(toks, i + 1) /\ Kind(toks[i + 1]) = "Identifier")
    THEN Err(MissingIdentifier, Advance(toks, i + 1))
    ELSE IF ~(HasNext(toks, i + 2) /\ toks[i + 2] = OpenParen)
    THEN Err(MissingOpenParen, Advance(toks, i + 2))
    ELSE IF ~(HasNext(toks, i + 4) /\ toks[i + 4] = OpenBrace)
    THEN Err(MissingOpenBrace, Advance(toks, i + 4))
    ELSE IF ~(HasNext(toks, i + 3) /\ toks[i + 3] = CloseParen)
    THEN Err(MissingCloseParen, Advance(toks, i + 3))
    ELSE function_body(toks, toks[i + 1][2], parse_statement(toks, i + 5))

parse_function(toks, i) ==
    IF ~(HasNext(toks, i) /\ toks[i] = IntKw)
    THEN Err(MissingKeyword("int"), Advance(toks, i))
    ELSE IF ~(HasNext(toks, i + 1) /\ Kind(toks[i + 1]) = "Identifier")
    THEN Err(MissingIdentifier, Advance(toks, i + 1))
    ELSE IF ~(HasNext(toks, i + 2) /\ toks[i + 2] = OpenParen)
    THEN Err(MissingOpenParen, Advance(toks, i + 2))
    ELSE IF ~(HasNext(toks, i + 3) /\ toks[i + 3] = CloseParen)
    THEN Err(MissingCloseParen, Advance(toks, i + 3))
    ELSE IF ~(HasNext(toks, i + 4) /\ toks[i + 4] = OpenBrace)
    THEN Err(MissingOpenBrace, Advance(toks, i + 4))
    ELSE function_body(toks, toks[i + 1][2], parse_statement(toks, i + 5))

\* Line 140: Node::Program(parse_function(...)?).
program_of(f) == IF ~f.ok THEN f ELSE Ok(NodeProgram(f.val), f.pos)

\* parse on an iterator that is kept from one run to the next.
parse_resumed(toks) == program_of(parse_function(toks, 1 + runs))

\* parse: a fresh iterator over the whole vector (tokens.iter().peekable()).
parse(toks) == program_of(parse_function(toks, 1))

(***************************************************************************)
(* 32-bit two's-complement arithmetic.  Register values are the signed     *)
(* integers MinI..MaxI; every operation wraps modulo 2^32 and is computed  *)
(* without leaving that range.                                             *)
(***************************************************************************)
MaxI == 2147483647
MinI == -2147483647 - 1

WrapAdd(a, b) ==
    IF a >= 0 /\ b >= 0
    THEN IF a > MaxI - b THEN (a + MinI) + (b + MinI) ELSE a + b
    ELSE IF a < 0 /\ b < 0
    THEN IF a < MinI - b THEN (a - MinI) + (b - MinI) ELSE a + b
    ELSE a + b

WrapNeg(a) == IF a = MinI THEN MinI ELSE -a

WrapSub(a, b) == WrapAdd(a, WrapNeg(b))

WrapNot(a) == (-1) - a

RECURSIVE MulNat(_, _)
MulNat(a, n) ==
    IF n = 0 THEN 0
    ELSE WrapAdd(IF n % 2 = 1 THEN a ELSE 0, MulNat(WrapAdd(a, a), n \div 2))

WrapMul(a, b) ==
    IF b >= 0 THEN MulNat(a, b)
    ELSE IF b = MinI THEN (IF a % 2 = 1 THEN MinI ELSE 0)
    ELSE WrapNeg(MulNat(a, -b))

\* The signed quotient truncated toward zero; DivFaults are the operand
\* pairs on which idivl raises #DE instead.
DivFaults(a, b) == b = 0 \/ (a = MinI /\ b = -1)

TruncDiv(a, b) ==
    IF (a >= 0) = (b > 0) THEN a \div b
    ELSE IF b = MinI THEN 0
    ELSE IF b < 0 THEN -(a \div (-b))
    ELSE IF a % b = 0 THEN a \div b ELSE (a \div b) + 1

(***************************************************************************)
(* Generator: assembly.rs.  The assembly text is the sequence of its       *)
(* lines; a line is <<mnemonic, operands...>>, an operand <<"$", n>> or    *)
(* <<"%", register>>, a symbol <<"_", id>>.                                *)
(***************************************************************************)
Imm(n) == <<"$", n>>
Reg(r) == <<"%", r>>
Sym(id) == <<"_", id>>

\* generate_combine with the operands of Subtract the other way round: the
\* accumulator (b) minus the secondary (a) would leave b - a.
generate_combine_swapped(op) ==
    CASE op = "Add" -> << <<"addl", Reg("ecx"), Reg("eax")>> >>
      [] op = "Subtract" -> << <<"subl", Reg("ecx"), Reg("eax")>> >>
      [] op = "Multiply" -> << <<"imul", Reg("ecx"), Reg("eax")>> >>
      [] op = "Divide" -> << <<"movl", Reg("eax"), Reg("ebx")>>,
                             <<"movl", Reg("ecx"), Reg("eax")>>,
                             <<"cdq">>,
                             <<"idivl", Reg("ebx")>> >>

generate_combine(op) ==
    CASE op = "Add" -> << <<"addl", Reg("ecx"), Reg("eax")>> >>
      [] op = "Subtract" -> << <<"subl", Reg("eax"), Reg("ecx")>>,
                               <<"movl", Reg("ecx"), Reg("eax")>> >>
      [] op = "Multiply" -> << <<"imul", Reg("ecx"), Reg("eax")>> >>
      [] op = "Divide" -> << <<"movl", Reg("eax"), Reg("ebx")>>,
                             <<"movl", Reg("ecx"), Reg("eax")>>,
                             <<"cdq">>,
                             <<"idivl", Reg("ebx")>> >>

\* generate_unop that zeroes the accumulator before the comparison.
generate_unop_zero_first(op) ==
    CASE op = "Negate" -> << <<"neg", Reg("eax")>> >>
      [] op = "Complement" -> << <<"not", Reg("eax")>> >>
      [] op = "LogicalNegate" -> << <<"movl", Imm(0), Reg("eax")>>,
                                    <<"cmpl", Imm(0), Reg("eax")>>,
                                    <<"sete", Reg("al")>> >>

generate_unop(op) ==
    CASE op = "Negate" -> << <<"neg", Reg("eax")>> >>
      [] op = "Complement" -> << <<"not", Reg("eax")>> >>
      [] op = "LogicalNegate" -> << <<"cmpl", Imm(0), Reg("eax")>>,
                                    <<"movl", Imm(0), Reg("eax")>>,
                                    <<"sete", Reg("al")>> >>

RECURSIVE generate_assembly(_)

generate_unary_op(op, factor) ==
    generate_assembly(factor) \o generate_unop(op)

\* generate_binary_op that leaves a's value on the stack.
generate_binary_op_unpopped(op, a, b) ==
    generate_assembly(a) \o << <<"push", Reg("rax")>> >>
        \o generate_assembly(b) \o << <<"movl", Reg("eax"), Reg("ecx")>> >>
        \o generate_combine(op)

\* generate_binary_op that evaluates b first and a second.
generate_binary_op_b_first(op, a, b) ==
    generate_assembly(b) \o << <<"push", Reg("rax")>> >>
        \o generate_assembly(a) \o << <<"pop", Reg("rcx")>> >>
        \o generate_combine(op)

generate_binary_op(op, a, b) ==
    generate_assembly(a) \o << <<"push", Reg("rax")>> >>
        \o generate_assembly(b) \o << <<"pop", Reg("rcx")>> >>
        \o generate_combine(op)

\* generate_assembly whose Function arm emits the label without exporting it.
generate_assembly_unexported(n) ==
    CASE n[1] = "Node::Program" -> generate_assembly(n[2])
      [] n[1] = "Node::Function" ->
           << <<"label", Sym(n[2])>> >> \o generate_assembly(n[3])
      [] n[1] = "Node::Statement" -> generate_assembly(n[3]) \o << <<"ret">> >>
      [] n[1] = "Expr::Term" -> generate_assembly(n[2])
      [] n[1] = "Term::Factor" -> generate_assembly(n[2])
      [] n[1] = "Term::BinOp" -> generate_binary_op(n[2], n[3], n[4])
      [] n[1] = "Factor::IntLiteral" -> << <<"movl", Imm(n[2]), Reg("eax")>> >>
      [] n[1] = "Factor::UnOp" -> generate_unary_op(n[2], n[3])
      [] n[1] = "Factor::BinOp" -> generate_binary_op(n[2], n[3], n[4])
      [] n[1] = "Factor::Expr" -> generate_assembly(n[2])

\* generate_assembly of every impl Assembly, chosen by the node's variant.
generate_assembly(n) ==
    CASE n[1] = "Node::Program" -> generate_assembly(n[2])
      [] n[1] = "Node::Function" ->
           << <<".globl", Sym(n[2])>>, <<"label", Sym(n[2])>> >>
               \o generate_assembly(n[3])
      [] n[1] = "Node::Statement" -> generate_assembly(n[3]) \o << <<"ret">> >>
      [] n[1] = "Expr::Term" -> generate_assembly(n[2])
      [] n[1] = "Term::Factor" -> generate_assembly(n[2])
      [] n[1] = "Term::BinOp" -> generate_binary_op(n[2], n[3], n[4])
      [] n[1] = "Factor::IntLiteral" -> << <<"movl", Imm(n[2]), Reg("eax")>> >>
      [] n[1] = "Factor::UnOp" -> generate_unary_op(n[2], n[3])
      [] n[1] = "Factor::BinOp" -> generate_binary_op(n[2], n[3], n[4])
      [] n[1] = "Factor::Expr" -> generate_assembly(n[2])

generate(tree) == generate_assembly(tree)

(***************************************************************************)
(* The abstract x86 machine that runs the generated code: the registers    *)
(* the code names, the zero flag and the machine stack.  A stack slot is   *)
(* <<"ret">> (the caller's return address) or <<"val", n>>.  Registers     *)
(* hold 32-bit values: every write the code makes is a 32-bit write, which *)
(* clears the upper half of the 64-bit register, and the code reads only   *)
(* the lower halves.                                                       *)
(***************************************************************************)
EntryPoint(c) == (CHOOSE i \in 1..Len(c) : c[i][1] = "label") + 1

Boot(c, junk) ==
    [status |-> "running", ip |-> EntryPoint(c),
     eax |-> junk, ecx |-> junk, ebx |-> junk, edx |-> junk,
     zf |-> (junk # 0), stack |-> << <<"ret">> >>]

Halted == [status |-> "off", ip |-> 0, eax |-> 0, ecx |-> 0, ebx |-> 0,
           edx |-> 0, zf |-> FALSE, stack |-> <<>>]

ReadReg(m, r) ==
    CASE r = "eax" -> m.eax [] r = "ecx" -> m.ecx
      [] r = "ebx" -> m.ebx [] r = "edx" -> m.edx

WriteReg(m, r, v) ==
    CASE r = "eax" -> [m EXCEPT !.eax = v] [] r = "ecx" -> [m EXCEPT !.ecx = v]
      [] r = "ebx" -> [m EXCEPT !.ebx = v] [] r = "edx" -> [m EXCEPT !.edx = v]

ReadOperand(m, o) == IF o[1] = "$" THEN o[2] ELSE ReadReg(m, o[2])

\* The effect of one instruction on the machine, ip not yet advanced.
Execute(m, ins) ==
    LET mn == ins[1] IN
    CASE mn = "movl" -> WriteReg(m, ins[3][2], ReadOperand(m, ins[2]))
      [] mn = "addl" ->
           WriteReg(m, ins[3][2], WrapAdd(ReadReg(m, ins[3][2]), ReadOperand(m, ins[2])))
      [] mn = "subl" ->
           WriteReg(m, ins[3][2], WrapSub(ReadReg(m, ins[3][2]), ReadOperand(m, ins[2])))
      [] mn = "imul" ->
           WriteReg(m, ins[3][2], WrapMul(ReadReg(m, ins[3][2]), ReadOperand(m, ins[2])))
      [] mn = "neg" -> WriteReg(m, ins[2][2], WrapNeg(ReadReg(m, ins[2][2])))
      [] mn = "not" -> WriteReg(m, ins[2][2], WrapNot(ReadReg(m, ins[2][2])))
      [] mn = "cmpl" ->
           [m EXCEPT !.zf = (WrapSub(ReadReg(m, ins[3][2]), ReadOperand(m, ins[2])) = 0)]
      [] mn = "sete" ->
           \* the low byte of eax becomes ZF, the other three bytes stay
           [m EXCEPT !.eax = (m.eax - (m.eax % 256)) + (IF m.zf THEN 1 ELSE 0)]
      [] mn = "cdq" -> [m EXCEPT !.edx = IF m.eax < 0 THEN -1 ELSE 0]
      [] mn = "idivl" ->
           LET d == ReadReg(m, ins[2][2]) IN
           IF m.edx # (IF m.eax < 0 THEN -1 ELSE 0) \/ DivFaults(m.eax, d)
           THEN [m EXCEPT !.status = "trap"]
           ELSE [m EXCEPT !.eax = TruncDiv(m.eax, d),
                          !.edx = WrapSub(m.eax, WrapMul(TruncDiv(m.eax, d), d))]
      [] mn = "push" ->
           [m EXCEPT !.stack = Append(m.stack, <<"val", m.eax>>)]
      [] mn = "pop" ->
           IF m.stack = <<>> \/ m.stack[Len(m.stack)][1] # "val"
           THEN [m EXCEPT !.status = "smashed"]
           ELSE [m EXCEPT !.ecx = m.stack[Len(m.stack)][2],
                          !.stack = SubSeq(m.stack, 1, Len(m.stack) - 1)]
      [] mn = "ret" ->
           IF m.stack # <<>> /\ m.stack[Len(m.stack)] = <<"ret">>
           THEN [m EXCEPT !.status = "returned",
                          !.stack = SubSeq(m.stack, 1, Len(m.stack) - 1)]
           ELSE [m EXCEPT !.status = "smashed"]

\* Fetch, execute, advance: a machine that stops keeps its ip.
Advanced(n) == IF n.status = "running" THEN [n EXCEPT !.ip = n.ip + 1] ELSE n

StepCpu(m, c) == Advanced(Execute(m, c[m.ip]))

(***************************************************************************)
(* Lexer: lexer.rs.  A &str is the sequence of its characters, each a      *)
(* one-character string; "NBSP" stands for U+00A0, a whitespace character  *)
(* that is two bytes long in UTF-8.                                        *)
(***************************************************************************)
LowerCase == {"a", "b", "c", "d", "e", "f", "g", "h", "i", "j", "k", "l", "m",
              "n", "o", "p", "q", "r", "s", "t", "u", "v", "w", "x", "y", "z"}
UpperCase == {"A", "B", "C", "D", "E", "F", "G", "H", "I", "J", "K", "L", "M",
              "N", "O", "P", "Q", "R", "S", "T", "U", "V", "W", "X", "Y", "Z"}
OctDigits == {"0", "1", "2", "3", "4", "5", "6", "7"}
DecDigits == OctDigits \cup {"8", "9"}
HexDigits == DecDigits \cup {"a", "b", "c", "d", "e", "f"}
                       \cup {"A", "B", "C", "D", "E", "F"}
WordChars == LowerCase \cup UpperCase \cup DecDigits \cup {"_"}
Whitespace == {" ", "\t", "\n", "\r", "NBSP"}

ByteLen(c) == IF c = "NBSP" THEN 2 ELSE 1

DigitValue(c) ==
    CASE c = "0" -> 0 [] c = "1" -> 1 [] c = "2" -> 2 [] c = "3" -> 3
      [] c = "4" -> 4 [] c = "5" -> 5 [] c = "6" -> 6 [] c = "7" -> 7
      [] c = "8" -> 8 [] c = "9" -> 9
      [] c \in {"a", "A"} -> 10 [] c \in {"b", "B"} -> 11
      [] c \in {"c", "C"} -> 12 [] c \in {"d", "D"} -> 13
      [] c \in {"e", "E"} -> 14 [] c \in {"f", "F"} -> 15

NoToken == <<"None">>
ParseIntError == <<"ParseIntError">>
Panic(text) == <<"Panic", text>>

char_to_token(c) ==
    CASE c = "{" -> OpenBrace
      [] c = "}" -> CloseBrace
      [] c = "(" -> OpenParen
      [] c = ")" -> CloseParen
      [] c = ";" -> Semicolon
      [] c = "-" -> Minus
      [] c = "~" -> Tilde
      [] c = "!" -> Bang
      [] OTHER -> NoToken

\* The length of the longest prefix of `input` made of characters of `class`.
RECURSIVE RunLength(_, _)
RunLength(input, class) ==
    IF input # <<>> /\ Head(input) \in class
    THEN 1 + RunLength(Tail(input), class)
    ELSE 0

Drop(input, n) == SubSeq(input, n + 1, Len(input))
Take(input, n) == SubSeq(input, 1, n)

\* i32::from_str_radix / str::parse::<i32> on a run of digits: the value,
\* or ParseIntError when it does not fit an i32.
RECURSIVE from_str_radix_acc(_, _, _)
from_str_radix_acc(digits, radix, acc) ==
    IF digits = <<>> THEN [ok |-> TRUE, val |-> acc]
    ELSE LET d == DigitValue(Head(digits)) IN
         IF acc > (MaxI - d) \div radix THEN [ok |-> FALSE, val |-> 0]
         ELSE from_str_radix_acc(Tail(digits), radix, acc * radix + d)

from_str_radix(digits, radix) == from_str_radix_acc(digits, radix, 0)

\* INT_REGEX: ^(0x[0-9a-fA-F]+)|^(0[0-7]+)|^([0-9]+), the first alternative
\* that matches wins.  [matched, ok, val, end]: Ok(None) is matched = FALSE.
tokenize_int_literal(input) ==
    LET hex == IF Len(input) >= 2 /\ input[1] = "0" /\ input[2] = "x"
               THEN RunLength(Drop(input, 2), HexDigits) ELSE 0
        oct == IF Len(input) >= 1 /\ input[1] = "0"
               THEN RunLength(Drop(input, 1), OctDigits) ELSE 0
        dec == RunLength(input, DecDigits)
        IntMatch(r, end) == [matched |-> TRUE, ok |-> r.ok, val |-> r.val, end |-> end]
    IN  IF hex > 0
        THEN IntMatch(from_str_radix(SubSeq(input, 3, 2 + hex), 16), 2 + hex)
        ELSE IF oct > 0
        THEN IntMatch(from_str_radix(SubSeq(input, 2, 1 + oct), 8), 1 + oct)
        ELSE IF dec > 0
        THEN IntMatch(from_str_radix(Take(input, dec), 10), dec)
        ELSE [matched |-> FALSE, ok |-> TRUE, val |-> 0, end |-> 0]

\* get_keyword_or_id taking a keyword at the start of a longer word.
StartsWith(input, word) == Len(input) >= Len(word) /\ Take(input, Len(word)) = word

get_keyword_or_id_prefix(input) ==
    LET id == IF input # <<>> /\ Head(input) \in LowerCase \cup UpperCase
              THEN 1 + RunLength(Tail(input), WordChars) ELSE 0
    IN  IF StartsWith(input, <<"i", "n", "t">>)
        THEN [ok |-> TRUE, tok |-> IntKw, rest |-> Drop(input, 3), err |-> NoError]
        ELSE IF StartsWith(input, <<"r", "e", "t", "u", "r", "n">>)
        THEN [ok |-> TRUE, tok |-> ReturnKw, rest |-> Drop(input, 6), err |-> NoError]
        ELSE IF id > 0
        THEN [ok |-> TRUE, tok |-> Identifier(Take(input, id)),
              rest |-> Drop(input, id), err |-> NoError]
        ELSE [ok |-> FALSE, tok |-> NoToken, rest |-> <<>>, err |-> Unknown]

\* get_keyword_or_id reporting only the character it could not read.
get_keyword_or_id_char(input) ==
    LET id == IF input # <<>> /\ Head(input) \in LowerCase \cup UpperCase
              THEN 1 + RunLength(Tail(input), WordChars) ELSE 0
    IN  IF id > 0
        THEN [ok |-> TRUE,
              tok |-> CASE Take(input, id) = <<"i", "n", "t">> -> IntKw
                        [] Take(input, id) = <<"r", "e", "t", "u", "r", "n">> -> ReturnKw
                        [] OTHER -> Identifier(Take(input, id)),
              rest |-> Drop(input, id), err |-> NoError]
        ELSE IF input # <<>>
        THEN [ok |-> FALSE, tok |-> NoToken, rest |-> <<>>,
              err |-> InvalidIdentifier(Take(input, 1))]
        ELSE [ok |-> FALSE, tok |-> NoToken, rest |-> <<>>, err |-> Unknown]

\* ID_REGEX ^[a-zA-Z]\w* and INVALID_ID_REGEX ^[^\(\)\{\}\s]+.
\* [ok, tok, rest, err].
get_keyword_or_id(input) ==
    LET id == IF input # <<>> /\ Head(input) \in LowerCase \cup UpperCase
              THEN 1 + RunLength(Tail(input), WordChars) ELSE 0
        bad == IF input # <<>>
               /\ Head(input) \notin {"(", ")", "{", "}"} \cup Whitespace
               THEN 1 + RunLength(Tail(input),
                        {input[k] : k \in 1..Len(input)}
                            \ ({"(", ")", "{", "}"} \cup Whitespace))
               ELSE 0
        word == Take(input, id)
    IN  IF id > 0
        THEN [ok |-> TRUE,
              tok |-> CASE word = <<"i", "n", "t">> -> IntKw
                        [] word = <<"r", "e", "t", "u", "r", "n">> -> ReturnKw
                        [] OTHER -> Identifier(word),
              rest |-> Drop(input, id), err |-> NoError]
        ELSE IF bad > 0
        THEN [ok |-> FALSE, tok |-> NoToken, rest |-> <<>>,
              err |-> InvalidIdentifier(Take(input, bad))]
        ELSE [ok |-> FALSE, tok |-> NoToken, rest |-> <<>>, err |-> Unknown]

LexOk(toks) == [ok |-> TRUE, val |-> toks, err |-> NoError]
LexErr(e) == [ok |-> FALSE, val |-> <<>>, err |-> e]

\* vec![t] extended by the tokens of the rest, or the rest's error.
Prepend(t, rest) == IF rest.ok THEN LexOk(<<t>> \o rest.val) ELSE rest

RECURSIVE tokenize(_)

tokenize_const_or_id(input) ==
    LET int_match == tokenize_int_literal(input)
        kw == get_keyword_or_id(input)
    IN  IF int_match.matched
        THEN IF ~int_match.ok THEN LexErr(ParseIntError)
             ELSE Prepend(IntLiteral(int_match.val), tokenize(Drop(input, int_match.end)))
        ELSE IF ~kw.ok THEN LexErr(kw.err)
        ELSE Prepend(kw.tok, tokenize(kw.rest))

\* &input[1..] is a byte slice: it panics inside a multi-byte character.
tokenize(input) ==
    IF input = <<>> THEN LexOk(<<>>)
    ELSE LET c == Head(input) IN
         IF char_to_token(c) # NoToken
         THEN Prepend(char_to_token(c), tokenize(Tail(input)))
         ELSE IF c \in Whitespace
         THEN IF ByteLen(c) = 1 THEN tokenize(Tail(input))
              ELSE LexErr(Panic("byte index 1 is not a char boundary"))
         ELSE tokenize_const_or_id(input)

(***************************************************************************)
(* The surroundings of compile: compiler.rs.  A file is "absent", "stale"  *)
(* (left by something earlier) or "new" (written by this compilation).     *)
(* `input` tells whether the input file can be read, `gcc` counts the      *)
(* invocations of the external toolchain, `stderr` is what it wrote,       *)
(* `wrote` tells whether fs::write succeeded and `removes` counts the      *)
(* calls of fs::remove_file.                                               *)
(***************************************************************************)
CleanEnv ==
    [input |-> TRUE, asm_file |-> "absent", exe_file |-> "absent", gcc |-> 0,
     stderr |-> <<>>, wrote |-> FALSE, removes |-> 0]

IoError(op) == <<"io::Error", op>>

\* Outside of concurrent calls the directory and the calls are not looked
\* at.
NoFiles == <<>>
NoCalls == <<>>

(***************************************************************************)
(* The pipeline as a state machine: compiler.rs compile runs tokenize,     *)
(* parse and generate in this order and stops at the first error; the      *)
(* generated code then runs on the machine.                                *)
(***************************************************************************)
Outcome == [stage |-> stage, tokens |-> tokens, ast |-> ast, code |-> code, err |-> err]
NoOutcome == [stage |-> "none", tokens |-> <<>>, ast |-> NoNode, code |-> <<>>,
              err |-> NoError]

\* A driver that keeps the tokens of a failed tokenize and goes on to parse.
Tokenize_unpropagated ==
    /\ stage = "source"
    /\ \E r \in {tokenize(source)} :
           /\ tokens' = r.val
           /\ err' = r.err
           /\ stage' = "tokens"
    /\ UNCHANGED <<source, ast, code, runs, first, cpu, env, fs, calls>>

\* let tokens = lexer::tokenize(&contents)?;
Tokenize ==
    /\ stage = "source"
    /\ \E r \in {tokenize(source)} :
           /\ tokens' = r.val
           /\ err' = r.err
           /\ stage' = IF r.ok THEN "tokens" ELSE "failed"
    /\ UNCHANGED <<source, ast, code, runs, first, cpu, env, fs, calls>>

\* let ast = parser::parse(&tokens)?;
Parse ==
    /\ stage = "tokens"
    /\ \E r \in {parse(tokens)} :
           /\ ast' = r.val
           /\ err' = r.err
           /\ stage' = IF r.ok THEN "ast" ELSE "failed"
    /\ UNCHANGED <<source, tokens, code, runs, first, cpu, env, fs, calls>>

\* let code = assembly::generate(&ast)?;  (no path of generate returns Err)
Generate ==
    /\ stage = "ast"
    /\ code' = generate(ast)
    /\ stage' = "asm"
    /\ UNCHANGED <<source, tokens, ast, err, runs, first, cpu, env, fs, calls>>

\* The executable is called: the return address is on the stack and the
\* registers hold whatever the caller left in them.
Junk == {0, -1}

Start ==
    /\ stage = "asm"
    /\ \E junk \in Junk : cpu' = Boot(code, junk)
    /\ stage' = "running"
    /\ UNCHANGED <<source, tokens, ast, code, err, runs, first, env, fs, calls>>

Step ==
    /\ stage = "running"
    /\ cpu.status = "running"
    /\ cpu' = StepCpu(cpu, code)
    /\ stage' = IF cpu'.status = "running" THEN "running" ELSE "exited"
    /\ UNCHANGED <<source, tokens, ast, code, err, runs, first, env, fs, calls>>

\* The parser is run again on the same token vector.
MaxRuns == 1

RerunParse ==
    /\ stage \in {"ast", "failed"}
    /\ runs < MaxRuns
    /\ runs' = runs + 1
    /\ first' = IF runs = 0 THEN Outcome ELSE first
    /\ stage' = "tokens"
    /\ ast' = NoNode
    /\ err' = NoError
    /\ UNCHANGED <<source, tokens, code, cpu, env, fs, calls>>

\* compile is run again on the same file.
RerunCompile ==
    /\ stage \in {"asm", "failed"}
    /\ runs < MaxRuns
    /\ runs' = runs + 1
    /\ first' = IF runs = 0 THEN Outcome ELSE first
    /\ stage' = "source"
    /\ tokens' = <<>>
    /\ ast' = NoNode
    /\ code' = <<>>
    /\ err' = NoError
    /\ UNCHANGED <<source, cpu, env, fs, calls>>

\* let contents = fs::read_to_string(&config.filename)?;
ReadFile ==
    /\ stage = "init"
    /\ stage' = IF env.input THEN "source" ELSE "failed"
    /\ err' = IF env.input THEN NoError ELSE IoError("read")
    /\ UNCHANGED <<source, tokens, ast, code, runs, first, cpu, env, fs, calls>>

\* fs::write(&output_file, code)?; a write that fails leaves the file as it
\* was.
WriteAssembly ==
    /\ stage = "asm"
    /\ \E ok \in BOOLEAN :
          /\ stage' = IF ok THEN "written" ELSE "failed"
          /\ err' = IF ok THEN NoError ELSE IoError("write")
          /\ env' = IF ok THEN [env EXCEPT !.asm_file = "new", !.wrote = TRUE] ELSE env
    /\ UNCHANGED <<source, tokens, ast, code, runs, first, cpu, fs, calls>>

\* What gcc can leave on its standard error: nothing, text, or bytes that
\* are not UTF-8.
NotUtf8 == <<"not UTF-8">>
GccStderr == {<<>>, <<"gcc: error">>, NotUtf8}

\* Lines 40-50: exe_path.to_str() may be None; Command::output() may fail to
\* start gcc; otherwise gcc runs, writes `out` to its standard error and
\* may produce the executable.  While it runs another process may remove
\* the assembly file.
ToolchainRan(out, produced, kept) ==
    [env EXCEPT !.gcc = env.gcc + 1,
                !.stderr = out,
                !.exe_file = IF produced THEN "new" ELSE env.exe_file,
                !.asm_file = IF kept THEN env.asm_file ELSE "absent"]

InvokeToolchain ==
    /\ stage = "written"
    /\ \/ /\ stage' = "failed"
          /\ err' = Message("Failed to parse path")
          /\ env' = env
       \/ /\ stage' = "failed"
          /\ err' = IoError("spawn")
          /\ env' = [env EXCEPT !.gcc = env.gcc + 1]
       \/ /\ stage' = "linked"
          /\ err' = NoError
          /\ \E out \in GccStderr, produced \in BOOLEAN, kept \in BOOLEAN :
                env' = ToolchainRan(out, produced, kept)
    /\ UNCHANGED <<source, tokens, ast, code, runs, first, cpu, fs, calls>>

\* Lines 53-59: fs::remove_file; NotFound is ignored, any other error is
\* returned.
RemoveAssembly ==
    /\ stage = "linked"
    /\ IF env.asm_file = "absent"
       THEN /\ stage' = "removed"
            /\ err' = NoError
            /\ env' = [env EXCEPT !.removes = env.removes + 1]
       ELSE \E ok \in BOOLEAN :
               /\ stage' = IF ok THEN "removed" ELSE "failed"
               /\ err' = IF ok THEN NoError ELSE IoError("remove")
               /\ env' = [env EXCEPT !.removes = env.removes + 1,
                                     !.asm_file = IF ok THEN "absent" ELSE env.asm_file]
    /\ UNCHANGED <<source, tokens, ast, code, runs, first, cpu, fs, calls>>

\* Lines 61-65: a non-empty standard error is the error of compile.
Return ==
    /\ stage = "removed"
    /\ stage' = IF env.stderr = <<>> THEN "done" ELSE "failed"
    /\ err' = IF env.stderr = <<>> THEN NoError
              ELSE IF env.stderr = NotUtf8 THEN Panic("unwrap on FromUtf8Error")
              ELSE Message(env.stderr)
    /\ UNCHANGED <<source, tokens, ast, code, runs, first, cpu, env, fs, calls>>

(***************************************************************************)
(* Inputs.                                                                 *)
(***************************************************************************)
\* Every sequence over S of length at most n.
AllSeqs(S, n) == UNION {[1..k -> S] : k \in 0..n}

MainId == <<"m", "a", "i", "n">>
Return0Id == <<"r", "e", "t", "u", "r", "n", "0">>

\* int main ( ) {
Header == <<IntKw, Identifier(MainId), OpenParen, CloseParen, OpenBrace>>

TokenAlphabet ==
    {OpenBrace, CloseBrace, OpenParen, CloseParen, Semicolon, Minus, Tilde, Bang,
     Plus, Asterisk, Slash, IntKw, ReturnKw, Identifier(MainId),
     Identifier(Return0Id), IntLiteral(2)}

ExprAlphabet ==
    {IntLiteral(2), Minus, Tilde, Bang, Plus, Asterisk, Slash, OpenParen, CloseParen}

\* What follows the expression of the return statement.
StmtTails ==
    {<<>>, <<Semicolon>>, <<CloseBrace>>, <<OpenParen>>, <<Semicolon, CloseBrace>>,
     <<Semicolon, CloseBrace, CloseBrace>>, <<Semicolon, Semicolon>>,
     <<Semicolon, IntLiteral(2)>>, <<CloseParen, Semicolon, CloseBrace>>}

MaxTailLen == 2
MaxExprLen == 3
MaxLit == 4

\* Every prefix of the header followed by at most MaxTailLen arbitrary tokens.
HeaderInputs ==
    {SubSeq(Header, 1, p) \o t : p \in 0..Len(Header), t \in AllSeqs(TokenAlphabet, MaxTailLen)}

\* The header, `return`, at most MaxExprLen arbitrary expression tokens, a tail.
StatementInputs ==
    {Header \o <<ReturnKw>> \o e \o t : e \in AllSeqs(ExprAlphabet, MaxExprLen), t \in StmtTails}

\* Complete programs returning a op1 b op2 c.
ChainOperands ==
    {<<IntLiteral(v)>> : v \in (1..MaxLit) \cup {6}}
        \cup {<<Minus, IntLiteral(3)>>,
              <<OpenParen, IntLiteral(1), Plus, IntLiteral(2), CloseParen>>}
BinOpTokens == {Plus, Minus, Asterisk, Slash}

ChainInputs ==
    {Header \o <<ReturnKw>> \o a \o <<op1>> \o b \o <<op2>> \o c
            \o <<Semicolon, CloseBrace>> :
        a \in ChainOperands, b \in ChainOperands, c \in ChainOperands,
        op1 \in BinOpTokens, op2 \in BinOpTokens}

TokenInputs == HeaderInputs \cup StatementInputs \cup ChainInputs

(***************************************************************************)
(* SpecParse: the parser on every token vector of TokenInputs, the         *)
(* generator on the trees it returns, and the machine on their code.       *)
(***************************************************************************)
InitParse ==
    /\ source = <<>>
    /\ tokens \in TokenInputs
    /\ ast = NoNode
    /\ code = <<>>
    /\ err = NoError
    /\ stage = "tokens"
    /\ runs = 0
    /\ first = NoOutcome
    /\ cpu = Halted
    /\ env = CleanEnv
    /\ fs = NoFiles
    /\ calls = NoCalls

NextParse == Parse \/ RerunParse \/ Generate \/ Start \/ Step

SpecParse == InitParse /\ [][NextParse]_vars

(***************************************************************************)
(* SpecGen: the generator on every tree of GenInputs and the machine on    *)
(* the code it emits.  The trees are the well-typed values of ast.rs with  *)
(* at most two operators nested, in both typings of a binary node.         *)
(***************************************************************************)
MaxVal == 2
GenVals == {MinI, MaxI} \cup (-1..MaxVal)
SmallVals == {MinI, -1, 2}

Leaves == {FactorIntLiteral(v) : v \in GenVals}
SmallLeaves == {FactorIntLiteral(v) : v \in SmallVals}
UnOps(A) == {FactorUnOp(op, a) : op \in UnOp, a \in A}
FactorOps(A, B) == {FactorBinOp(op, a, b) : op \in BinOp, a \in A, b \in B}
TermOps(A, B) == {TermBinOp(op, a, b) : op \in BinOp, a \in A, b \in B}
AsTerms(A) == {TermFactor(a) : a \in A}
Paren(T) == {FactorExpr(ExprTerm(t)) : t \in T}

InnerTerms == TermOps(AsTerms(SmallLeaves), AsTerms(SmallLeaves))
InnerFactors ==
    UnOps(SmallLeaves) \cup FactorOps(SmallLeaves, SmallLeaves) \cup Paren(InnerTerms)

GenFactors ==
    Leaves \cup UnOps(Leaves) \cup FactorOps(Leaves, Leaves) \cup UnOps(InnerFactors)
        \cup FactorOps(InnerFactors, Leaves) \cup FactorOps(Leaves, InnerFactors)

GenTerms ==
    AsTerms(GenFactors) \cup TermOps(AsTerms(Leaves), AsTerms(Leaves))
        \cup TermOps(AsTerms(InnerFactors) \cup InnerTerms, AsTerms(Leaves))
        \cup TermOps(AsTerms(Leaves), AsTerms(InnerFactors) \cup InnerTerms)

ProgramReturning(e) == NodeProgram(NodeFunction(MainId, NodeStatement("Return", e)))

\* A function of another name, as in the test basic_function.
FooId == <<"f", "o", "o">>
FooReturning(e) == NodeProgram(NodeFunction(FooId, NodeStatement("Return", e)))

GenInputs ==
    {ProgramReturning(ExprTerm(t)) : t \in GenTerms}
        \cup {FooReturning(ExprTerm(TermFactor(f))) : f \in Leaves \cup UnOps(Leaves)}

InitGen ==
    /\ source = <<>>
    /\ tokens = <<>>
    /\ ast \in GenInputs
    /\ code = <<>>
    /\ err = NoError
    /\ stage = "ast"
    /\ runs = 0
    /\ first = NoOutcome
    /\ cpu = Halted
    /\ env = CleanEnv
    /\ fs = NoFiles
    /\ calls = NoCalls

NextGen == Generate \/ Start \/ Step

SpecGen == InitGen /\ [][NextGen]_vars

(***************************************************************************)
(* Spec: the whole pipeline on source text.  A source is the function      *)
(* frame around at most MaxSrcLexemes expression lexemes, the lexemes      *)
(* joined by one of Separators.                                            *)
(***************************************************************************)
MaxSrcLexemes == 3

ExprLexemes ==
    {<<"2">>, <<"-">>, <<"~">>, <<"!">>, <<"+">>, <<"*">>, <<"/">>, <<"(">>, <<")">>}
Separators == {<<>>, <<" ">>}

RECURSIVE Join(_, _)
Join(lexemes, sep) ==
    IF lexemes = <<>> THEN <<>>
    ELSE IF Len(lexemes) = 1 THEN lexemes[1]
    ELSE lexemes[1] \o sep \o Join(Tail(lexemes), sep)

FrameOpen == <<"i", "n", "t", " ", "m", "a", "i", "n", "(", ")", "{",
               "r", "e", "t", "u", "r", "n", " ">>
FrameClose == <<";", "}">>

SourceOf(lexemes, sep) == FrameOpen \o Join(lexemes, sep) \o FrameClose

(***************************************************************************)
(* Lexical sources: one lexeme, or two lexemes joined by one of            *)
(* LexSeparators, without the function frame.                              *)
(***************************************************************************)
LiteralLexemes ==
    {<<"0">>, <<"2">>, <<"4", "2">>, <<"0", "0">>,
     <<"0", "8", "9">>, <<"0", "7", "7", "7">>, <<"0", "7", "7", "8">>, <<"0", "x", "1", "F">>,
     <<"0", "x", "1", "f">>, <<"0", "X", "1", "F">>, <<"0", "x">>, <<"2", "1", "4", "7", "4", "8", "3", "6", "4", "7">>,
     <<"2", "1", "4", "7", "4", "8", "3", "6", "4", "8">>, <<"0", "x", "7", "f", "f", "f", "f", "f", "f", "f">>, <<"0", "x", "8", "0", "0", "0", "0", "0", "0", "0">>, <<"0", "1", "7", "7", "7", "7", "7", "7", "7", "7", "7", "7">>,
     <<"0", "2", "0", "0", "0", "0", "0", "0", "0", "0", "0", "0">>}

OperatorLexemes ==
    {<<"+">>, <<"*">>, <<"/">>, <<"<">>, <<">">>, <<"=", "=">>,
     <<"!", "=">>, <<"<", "=">>, <<">", "=">>, <<"&", "&">>, <<"|", "|">>, <<"=">>,
     <<"&">>, <<"|">>, <<"!">>, <<"-">>, <<"~">>}

SymbolLexemes ==
    {<<"(">>, <<")">>, <<"{">>, <<"}">>, <<";">>}

WordLexemes ==
    {<<"i", "n", "t">>, <<"r", "e", "t", "u", "r", "n">>, <<"r", "e", "t", "u", "r", "n", "0">>, <<"R", "E", "T", "U", "R", "N">>,
     <<"i", "n", "t", "e", "g", "e", "r">>, <<"m", "a", "i", "n">>, <<"x", "_", "1">>}

OtherLexemes ==
    {<<"$", "f", "o", "o">>, <<"@">>, <<"_", "a">>, <<"#">>}

Lexemes ==
    LiteralLexemes \cup OperatorLexemes \cup SymbolLexemes \cup WordLexemes
        \cup OtherLexemes

LexSeparators == {<<>>, <<" ">>, <<"\n">>, <<"NBSP">>}

LexSources ==
    Lexemes \cup {a \o sep \o b : a \in Lexemes, b \in Lexemes, sep \in LexSeparators}

FramedSources ==
    {SourceOf(e, sep) : e \in AllSeqs(ExprLexemes, MaxSrcLexemes), sep \in Separators}

\* The empty input and the inputs made only of whitespace.
BlankSources == AllSeqs({" ", "\t", "\n", "NBSP"}, 2)

Sources == FramedSources \cup LexSources \cup BlankSources

Init ==
    /\ source \in Sources
    /\ tokens = <<>>
    /\ ast = NoNode
    /\ code = <<>>
    /\ err = NoError
    /\ stage = "source"
    /\ runs = 0
    /\ first = NoOutcome
    /\ cpu = Halted
    /\ env = CleanEnv
    /\ fs = NoFiles
    /\ calls = NoCalls

Next == Tokenize \/ Parse \/ Generate \/ RerunCompile \/ Start \/ Step

Spec == Init /\ [][Next]_vars

(***************************************************************************)
(* SpecCompile: compile from the call to its return, on every source of    *)
(* Sources, with the input file readable or not and the two output files   *)
(* absent or left by something earlier.                                    *)
(***************************************************************************)
Envs ==
    {[CleanEnv EXCEPT !.input = r, !.asm_file = a, !.exe_file = e] :
        r \in BOOLEAN, a \in {"absent", "stale"}, e \in {"absent", "stale"}}

InitCompile ==
    /\ source \in Sources
    /\ tokens = <<>>
    /\ ast = NoNode
    /\ code = <<>>
    /\ err = NoError
    /\ stage = "init"
    /\ runs = 0
    /\ first = NoOutcome
    /\ cpu = Halted
    /\ env \in Envs
    /\ fs = NoFiles
    /\ calls = NoCalls

NextCompile ==
    \/ ReadFile \/ Tokenize \/ Parse \/ Generate
    \/ WriteAssembly \/ InvokeToolchain \/ RemoveAssembly \/ Return

SpecCompile == InitCompile /\ [][NextCompile]_vars

(***************************************************************************)
(* Paths: compiler.rs replace_ext over PathBuf::set_extension.  All files  *)
(* are in one directory; a file name is the sequence of its parts between  *)
(* dots, so `src.c.c` is <<"src", "c", "c">> and the hidden file `.c` is   *)
(* <<"", "c">>.                                                            *)
(***************************************************************************)
\* Path::extension: the part after the last dot, none for a name without a
\* dot or with its only dot in front.
has_extension(name) == Len(name) >= 2 /\ ~(Len(name) = 2 /\ name[1] = "")

\* Path::file_stem.
file_stem(name) == IF has_extension(name) THEN SubSeq(name, 1, Len(name) - 1) ELSE name

\* PathBuf::set_extension: an empty extension removes the one there is.
set_extension(name, ext) == IF ext = "" THEN file_stem(name) ELSE file_stem(name) \o <<ext>>

replace_ext(input, new_ext) == set_extension(input, new_ext)

\* A temporary file of one fixed name for every input.
get_temp_assembly_file_shared(input_file) == <<"out", "s">>

get_temp_assembly_file(input_file) == replace_ext(input_file, "s")

get_exe_file(input_file) == replace_ext(input_file, "")

(***************************************************************************)
(* The text of the assembly file: code.join("\n") over the lines the       *)
(* generator formats.                                                      *)
(***************************************************************************)
Chars(word) ==
    CASE word = "movl" -> <<"m", "o", "v", "l">>
      [] word = "addl" -> <<"a", "d", "d", "l">>
      [] word = "subl" -> <<"s", "u", "b", "l">>
      [] word = "imul" -> <<"i", "m", "u", "l">>
      [] word = "neg" -> <<"n", "e", "g">>
      [] word = "not" -> <<"n", "o", "t">>
      [] word = "cmpl" -> <<"c", "m", "p", "l">>
      [] word = "sete" -> <<"s", "e", "t", "e">>
      [] word = "cdq" -> <<"c", "d", "q">>
      [] word = "idivl" -> <<"i", "d", "i", "v", "l">>
      [] word = "push" -> <<"p", "u", "s", "h">>
      [] word = "pop" -> <<"p", "o", "p">>
      [] word = "ret" -> <<"r", "e", "t">>
      [] word = "eax" -> <<"e", "a", "x">>
      [] word = "ecx" -> <<"e", "c", "x">>
      [] word = "ebx" -> <<"e", "b", "x">>
      [] word = "edx" -> <<"e", "d", "x">>
      [] word = "rax" -> <<"r", "a", "x">>
      [] word = "rcx" -> <<"r", "c", "x">>
      [] word = "al" -> <<"a", "l">>

DigitChar(d) == <<"0", "1", "2", "3", "4", "5", "6", "7", "8", "9">>[d + 1]

\* The decimal digits of -n for n <= 0 (the negative range holds MinI).
RECURSIVE DigitsOfNegative(_)
DigitsOfNegative(n) ==
    LET last == (10 - (n % 10)) % 10
    IN  IF n > -10 THEN <<DigitChar(-n)>>
        ELSE DigitsOfNegative((n + last) \div 10) \o <<DigitChar(last)>>

\* format!("{}", n) of an i32.
Display(n) == IF n < 0 THEN <<"-">> \o DigitsOfNegative(n) ELSE DigitsOfNegative(-n)

OperandText(o) ==
    CASE o[1] = "$" -> <<"$">> \o Display(o[2])
      [] o[1] = "%" -> <<"%">> \o Chars(o[2])
      [] o[1] = "_" -> <<"_">> \o o[2]

LineText(line) ==
    CASE line[1] = ".globl" -> <<".", "g", "l", "o", "b", "l", " ">> \o OperandText(line[2])
      [] line[1] = "label" -> OperandText(line[2]) \o <<":">>
      [] Len(line) = 1 -> <<" ", " ">> \o Chars(line[1])
      [] Len(line) = 2 -> <<" ", " ">> \o Chars(line[1]) \o <<"\t">> \o OperandText(line[2])
      [] Len(line) = 3 ->
           <<" ", " ">> \o Chars(line[1]) \o <<"\t">> \o OperandText(line[2])
               \o <<",", " ">> \o OperandText(line[3])

RECURSIVE AsmText(_)
AsmText(c) ==
    IF c = <<>> THEN <<>>
    ELSE IF Len(c) = 1 THEN LineText(c[1])
    ELSE LineText(c[1]) \o <<"\n">> \o AsmText(Tail(c))

(***************************************************************************)
(* Calls of compile side by side: compiler.rs compile, each call with its  *)
(* own locals, all on the files of one directory.  A file is absent, a     *)
(* text, an assembly file holding generated code or an executable linked   *)
(* from such code.  The file operations themselves succeed whenever the    *)
(* file is there; gcc reads the assembly file and writes the executable in *)
(* one step.                                                               *)
(***************************************************************************)
Absent == <<"absent">>
TextFile(text) == <<"text", text>>
AsmFile(c) == <<"asm", c>>
ExeFile(c) == <<"exe", c>>

Pending == <<"pending">>
Success == <<"Ok">>

\* Lines 32-34: tokenize, parse and generate, each followed by `?`.
generated_of(p) ==
    IF p.ok THEN [ok |-> TRUE, code |-> generate(p.val), err |-> NoError]
    ELSE [ok |-> FALSE, code |-> <<>>, err |-> p.err]

parsed_of(t) ==
    IF t.ok THEN generated_of(parse(t.val))
    ELSE [ok |-> FALSE, code |-> <<>>, err |-> t.err]

front_end(text) == parsed_of(tokenize(text))

\* fs::read_to_string: a missing file and a file that is not UTF-8 text
\* (an executable) are errors; an assembly file is read as its text.
read_to_string(file) ==
    CASE file[1] = "text" -> [ok |-> TRUE, text |-> file[2]]
      [] file[1] = "asm" -> [ok |-> TRUE, text |-> AsmText(file[2])]
      [] OTHER -> [ok |-> FALSE, text |-> <<>>]

Finish(k, result) == [calls EXCEPT ![k].pc = "done", ![k].result = result]

\* Lines 31-34.
CallFrontEnd(k) ==
    /\ calls[k].pc = "read"
    /\ \E contents \in {read_to_string(fs[calls[k].input])} :
          IF ~contents.ok THEN calls' = Finish(k, IoError("read"))
          ELSE \E r \in {front_end(contents.text)} :
                  calls' = IF r.ok
                           THEN [calls EXCEPT ![k].pc = "write", ![k].code = r.code]
                           ELSE Finish(k, r.err)
    /\ UNCHANGED <<source, tokens, ast, code, err, stage, runs, first, cpu, env, fs>>

\* Lines 37-38.
CallWrite(k) ==
    /\ calls[k].pc = "write"
    /\ fs' = [fs EXCEPT ![get_temp_assembly_file(calls[k].input)] = AsmFile(calls[k].code)]
    /\ calls' = [calls EXCEPT ![k].pc = "gcc"]
    /\ UNCHANGED <<source, tokens, ast, code, err, stage, runs, first, cpu, env>>

\* What gcc makes of the file it is handed: an executable and a silent
\* standard error from generated code, a diagnostic from anything else.
Linked(file) == file[1] = "asm"

\* Lines 47-50.
CallGcc(k) ==
    /\ calls[k].pc = "gcc"
    /\ \E file \in {fs[get_temp_assembly_file(calls[k].input)]} :
          /\ calls' = [calls EXCEPT ![k].pc = "remove",
                                    ![k].handed = file,
                                    ![k].stderr = IF Linked(file) THEN <<>>
                                                  ELSE <<"gcc: error">>]
          /\ fs' = IF Linked(file)
                   THEN [fs EXCEPT ![get_exe_file(calls[k].input)] = ExeFile(file[2])]
                   ELSE fs
    /\ UNCHANGED <<source, tokens, ast, code, err, stage, runs, first, cpu, env>>

\* Lines 53-59: NotFound is ignored.
CallRemove(k) ==
    /\ calls[k].pc = "remove"
    /\ fs' = [fs EXCEPT ![get_temp_assembly_file(calls[k].input)] = Absent]
    /\ calls' = [calls EXCEPT ![k].pc = "return"]
    /\ UNCHANGED <<source, tokens, ast, code, err, stage, runs, first, cpu, env>>

\* Lines 61-65.
CallReturn(k) ==
    /\ calls[k].pc = "return"
    /\ calls' = Finish(k, IF calls[k].stderr = <<>> THEN Success
                          ELSE Message(calls[k].stderr))
    /\ UNCHANGED <<source, tokens, ast, code, err, stage, runs, first, cpu, env, fs>>

\* The input files: sources and other texts, with and without extension.
InputNames ==
    {<<"a", "c">>, <<"a", "i">>, <<"b", "c">>, <<"a", "s">>, <<"a">>, <<"", "c">>,
     <<"a", "c", "c">>}

FileNames ==
    InputNames \cup {get_temp_assembly_file(n) : n \in InputNames}
        \cup {get_exe_file(n) : n \in InputNames}

InputTexts ==
    {SourceOf(<< <<"2">> >>, <<>>), SourceOf(<< <<"~">>, <<"2">> >>, <<>>),
     SourceOf(<< <<"-">>, <<"2">> >>, <<>>), SourceOf(<< <<"!">>, <<"2">> >>, <<>>),
     SourceOf(<< <<"(">>, <<"2">> >>, <<>>)}

NewCall(name, text) ==
    [input |-> name, text |-> text, pc |-> "read", code |-> <<>>, handed |-> Absent,
     stderr |-> <<>>, result |-> Pending]

\* The directory holds the input of every call and nothing else.
Directory(cs) ==
    [n \in FileNames |->
        IF \E k \in DOMAIN cs : cs[k].input = n
        THEN TextFile(cs[CHOOSE k \in DOMAIN cs : cs[k].input = n].text)
        ELSE Absent]

InitCalls(n) ==
    /\ source = <<>>
    /\ tokens = <<>>
    /\ ast = NoNode
    /\ code = <<>>
    /\ err = NoError
    /\ stage = "calls"
    /\ runs = 0
    /\ first = NoOutcome
    /\ cpu = Halted
    /\ env = CleanEnv
    /\ calls \in {cs \in [1..n -> {NewCall(name, text) : name \in InputNames, text \in InputTexts}] :
                     \A j, k \in 1..n : j # k => cs[j].input # cs[k].input}
    /\ fs = Directory(calls)

NextCalls ==
    \E k \in DOMAIN calls :
        \/ CallFrontEnd(k) \/ CallWrite(k) \/ CallGcc(k) \/ CallRemove(k) \/ CallReturn(k)

(***************************************************************************)
(* SpecSolo: one call of compile on every input name and text.             *)
(* SpecPar: two calls on distinct input files, their steps interleaved.    *)
(***************************************************************************)
InitSolo == InitCalls(1)
SpecSolo == InitSolo /\ [][NextCalls]_vars

InitPar == InitCalls(2)
SpecPar == InitPar /\ [][NextCalls]_vars

(***************************************************************************)
(* The grammar of the specification, as a recogniser of token sequences    *)
(* that does not use the parser:                                           *)
(*   Function  := "int" Identifier "(" ")" "{" Statement "}"               *)
(*   Statement := "return" Expr ";"                                        *)
(*   Expr      := Term (("+"|"-") Term)*                                   *)
(*   Term      := Factor (("*"|"/") Factor)*                               *)
(*   Factor    := IntLiteral | ("!"|"-"|"~") Factor | "(" Expr ")"         *)
(***************************************************************************)
RECURSIVE IsFactorSeq(_)
RECURSIVE IsTermSeq(_)
RECURSIVE IsExprSeq(_)

IsFactorSeq(s) ==
    \/ Len(s) = 1 /\ Kind(s[1]) = "IntLiteral"
    \/ Len(s) >= 2 /\ s[1] \in {Bang, Minus, Tilde} /\ IsFactorSeq(Tail(s))
    \/ /\ Len(s) >= 3
       /\ s[1] = OpenParen
       /\ s[Len(s)] = CloseParen
       /\ IsExprSeq(SubSeq(s, 2, Len(s) - 1))

IsTermSeq(s) ==
    \/ IsFactorSeq(s)
    \/ \E i \in 2..(Len(s) - 1) :
          /\ s[i] \in {Asterisk, Slash}
          /\ IsFactorSeq(SubSeq(s, i + 1, Len(s)))
          /\ IsTermSeq(SubSeq(s, 1, i - 1))

IsExprSeq(s) ==
    \/ IsTermSeq(s)
    \/ \E i \in 2..(Len(s) - 1) :
          /\ s[i] \in {Plus, Minus}
          /\ IsTermSeq(SubSeq(s, i + 1, Len(s)))
          /\ IsExprSeq(SubSeq(s, 1, i - 1))

\* int <identifier> ( ) {
IsHeaderSeq(s) ==
    /\ Len(s) = 5
    /\ s[1] = IntKw
    /\ Kind(s[2]) = "Identifier"
    /\ s[3] = OpenParen
    /\ s[4] = CloseParen
    /\ s[5] = OpenBrace

IsProgramSeq(s) ==
    /\ Len(s) >= 9
    /\ IsHeaderSeq(SubSeq(s, 1, 5))
    /\ s[6] = ReturnKw
    /\ IsExprSeq(SubSeq(s, 7, Len(s) - 2))
    /\ s[Len(s) - 1] = Semicolon
    /\ s[Len(s)] = CloseBrace

\* The token the specification gives each expression lexeme.
LexemeToken(lexeme) ==
    CASE lexeme = <<"2">> -> IntLiteral(2)
      [] lexeme = <<"-">> -> Minus
      [] lexeme = <<"~">> -> Tilde
      [] lexeme = <<"!">> -> Bang
      [] lexeme = <<"+">> -> Plus
      [] lexeme = <<"*">> -> Asterisk
      [] lexeme = <<"/">> -> Slash
      [] lexeme = <<"(">> -> OpenParen
      [] lexeme = <<")">> -> CloseParen

\* The sources whose expression lexemes are a sentence of Expr.
ValidSources ==
    {SourceOf(e, sep) :
        e \in {l \in AllSeqs(ExprLexemes, MaxSrcLexemes) :
                  IsExprSeq([k \in 1..Len(l) |-> LexemeToken(l[k])])},
        sep \in Separators}

ParseReturned == stage \in {"ast", "failed"}

(***************************************************************************)
(* C1: every source that is a syntactically valid program of the subset    *)
(* (the frame around an Expr of literals, unary - ~ !, binary + - * / and  *)
(* parentheses) passes tokenize, parse and generate: its compilation never *)
(* fails.                                                                  *)
(***************************************************************************)
C1_ValidProgramCompiles == source \in ValidSources => stage # "failed"

(***************************************************************************)
(* The value of an expression tree in 32-bit two's-complement arithmetic,  *)
(* operands left to right.  A quotient whose divisor is zero, or MinI / -1,*)
(* has no value, and neither has an expression that contains one.          *)
(***************************************************************************)
Defined(v) == [def |-> TRUE, v |-> v]
Undefined == [def |-> FALSE, v |-> 0]

ApplyUn(op, x) ==
    IF ~x.def THEN Undefined
    ELSE Defined(CASE op = "Negate" -> WrapNeg(x.v)
                   [] op = "Complement" -> WrapNot(x.v)
                   [] op = "LogicalNegate" -> IF x.v = 0 THEN 1 ELSE 0)

ApplyBin(op, a, b) ==
    IF ~a.def \/ ~b.def THEN Undefined
    ELSE IF op = "Divide" /\ DivFaults(a.v, b.v) THEN Undefined
    ELSE Defined(CASE op = "Add" -> WrapAdd(a.v, b.v)
                   [] op = "Subtract" -> WrapSub(a.v, b.v)
                   [] op = "Multiply" -> WrapMul(a.v, b.v)
                   [] op = "Divide" -> TruncDiv(a.v, b.v))

RECURSIVE Value(_)
Value(n) ==
    CASE n[1] \in {"Expr::Term", "Term::Factor", "Factor::Expr"} -> Value(n[2])
      [] n[1] = "Factor::IntLiteral" -> Defined(n[2])
      [] n[1] = "Factor::UnOp" -> ApplyUn(n[2], Value(n[3]))
      [] n[1] \in {"Term::BinOp", "Factor::BinOp"} ->
           ApplyBin(n[2], Value(n[3]), Value(n[4]))

\* The expression of the return statement of a Program tree.
ReturnExpr(tree) == tree[2][3][3]

AtRet == stage = "running" /\ code[cpu.ip] = <<"ret">>

AccumulatorHolds(val) ==
    /\ AtRet => val.def /\ cpu.eax = val.v /\ cpu.stack = << <<"ret">> >>
    /\ stage = "exited" =>
           IF val.def THEN cpu.status = "returned" /\ cpu.eax = val.v
           ELSE cpu.status = "trap"

(***************************************************************************)
(* C2: the code generated for an expression tree, run on the machine,      *)
(* reaches the ret with the value of the expression in eax (Add a + b,     *)
(* Subtract a - b, Multiply a * b, Divide the quotient truncated toward    *)
(* zero, Negate, Complement, at any nesting); an expression without a      *)
(* value never reaches the ret.                                            *)
(***************************************************************************)
C2_AccumulatorHoldsValue ==
    stage \in {"running", "exited"} => AccumulatorHolds(Value(ReturnExpr(ast)))

\* 1 - (MinI / 2) has returned 1073741825.
C2_Witness ==
    /\ stage = "exited"
    /\ cpu.status = "returned"
    /\ ReturnExpr(ast) =
           ExprTerm(TermBinOp("Subtract", TermFactor(FactorIntLiteral(1)),
                              TermFactor(FactorBinOp("Divide", FactorIntLiteral(MinI),
                                                     FactorIntLiteral(2)))))
    /\ cpu.eax = (MaxI \div 2) + 2

(***************************************************************************)
(* Chains of three operands.  The tokens are framed when they are a        *)
(* function header, `return`, a body, `;` and `}`; the body is a chain at  *)
(* p and q when its tokens before p, between p and q and after q are each  *)
(* a Factor.  The tree of an operand is the tree the parser gives the      *)
(* operand on its own.                                                     *)
(***************************************************************************)
AddTokens == {Plus, Minus}
MulTokens == {Asterisk, Slash}

Framed ==
    /\ Len(tokens) >= 9
    /\ IsHeaderSeq(SubSeq(tokens, 1, 5))
    /\ tokens[6] = ReturnKw
    /\ tokens[Len(tokens) - 1] = Semicolon
    /\ tokens[Len(tokens)] = CloseBrace

Body == SubSeq(tokens, 7, Len(tokens) - 2)

ChainAt(e, p, q) ==
    /\ 1 < p /\ p + 1 < q /\ q < Len(e)
    /\ IsFactorSeq(SubSeq(e, 1, p - 1))
    /\ IsFactorSeq(SubSeq(e, p + 1, q - 1))
    /\ IsFactorSeq(SubSeq(e, q + 1, Len(e)))

OperandTree(s) == parse_factor(s, 1).val
BinOpOf(t) == token_to_binop(t).op

Parsed == stage \in {"ast", "asm", "running", "exited"}

\* The parse succeeded with `tree` for the returned expression, and the
\* program evaluates to `val`.
ParsesAndEvaluatesAs(tree, val) ==
    /\ stage # "failed"
    /\ Parsed => ReturnExpr(ast) = tree
    /\ AccumulatorHolds(val)

TighterSecond(op1, op2, a, b, c) ==
    ParsesAndEvaluatesAs(
        ExprTerm(TermBinOp(op1, TermFactor(a), TermFactor(FactorBinOp(op2, b, c)))),
        ApplyBin(op1, Value(a), ApplyBin(op2, Value(b), Value(c))))

LeftLeaningTerms(op1, op2, a, b, c) ==
    ParsesAndEvaluatesAs(
        ExprTerm(TermBinOp(op2, TermBinOp(op1, TermFactor(a), TermFactor(b)),
                           TermFactor(c))),
        ApplyBin(op2, ApplyBin(op1, Value(a), Value(b)), Value(c)))

LeftLeaningFactors(op1, op2, a, b, c) ==
    ParsesAndEvaluatesAs(
        ExprTerm(TermFactor(FactorBinOp(op2, FactorBinOp(op1, a, b), c))),
        ApplyBin(op2, ApplyBin(op1, Value(a), Value(b)), Value(c)))

ReturnOf(e) == Header \o <<ReturnKw>> \o e \o <<Semicolon, CloseBrace>>

Returned(n) == stage = "exited" /\ cpu.status = "returned" /\ cpu.eax = n

(***************************************************************************)
(* C3: of `return a <add-op> b <mul-op> c;` the parser makes the tree      *)
(* a <add-op> (b <mul-op> c), and the program evaluates accordingly;       *)
(* `return 2 + 3 * 4;` ends with 14.                                       *)
(***************************************************************************)
C3_MultiplicativeBindsTighter ==
    /\ Framed /\ stage # "tokens" =>
           \A p \in 1..Len(Body), q \in 1..Len(Body) :
              Body[p] \in AddTokens /\ Body[q] \in MulTokens /\ ChainAt(Body, p, q) =>
                 TighterSecond(BinOpOf(Body[p]), BinOpOf(Body[q]),
                               OperandTree(SubSeq(Body, 1, p - 1)),
                               OperandTree(SubSeq(Body, p + 1, q - 1)),
                               OperandTree(SubSeq(Body, q + 1, Len(Body))))
    /\ tokens = ReturnOf(<<IntLiteral(2), Plus, IntLiteral(3), Asterisk, IntLiteral(4)>>)
           /\ stage = "exited" => Returned(14)

\* return 2 + 3 * 4; has run and returned 14.
C3_Witness ==
    /\ tokens = ReturnOf(<<IntLiteral(2), Plus, IntLiteral(3), Asterisk, IntLiteral(4)>>)
    /\ Returned(14)
    /\ ReturnExpr(ast) =
           ExprTerm(TermBinOp("Add", TermFactor(FactorIntLiteral(2)),
                              TermFactor(FactorBinOp("Multiply", FactorIntLiteral(3),
                                                     FactorIntLiteral(4)))))

(***************************************************************************)
(* C4: of `a op1 b op2 c` with both operators additive, or both            *)
(* multiplicative, the parser makes the left-leaning tree (a op1 b) op2 c, *)
(* and the program evaluates accordingly; `return 1 - 2 - 3;` ends with    *)
(* -4 and `return 6 / 3 / 2;` with 1.                                      *)
(***************************************************************************)
C4_LeftAssociative ==
    /\ Framed /\ stage # "tokens" =>
           \A p \in 1..Len(Body), q \in 1..Len(Body) :
              /\ Body[p] \in AddTokens /\ Body[q] \in AddTokens /\ ChainAt(Body, p, q) =>
                    LeftLeaningTerms(BinOpOf(Body[p]), BinOpOf(Body[q]),
                                     OperandTree(SubSeq(Body, 1, p - 1)),
                                     OperandTree(SubSeq(Body, p + 1, q - 1)),
                                     OperandTree(SubSeq(Body, q + 1, Len(Body))))
              /\ Body[p] \in MulTokens /\ Body[q] \in MulTokens /\ ChainAt(Body, p, q) =>
                    LeftLeaningFactors(BinOpOf(Body[p]), BinOpOf(Body[q]),
                                       OperandTree(SubSeq(Body, 1, p - 1)),
                                       OperandTree(SubSeq(Body, p + 1, q - 1)),
                                       OperandTree(SubSeq(Body, q + 1, Len(Body))))
    /\ tokens = ReturnOf(<<IntLiteral(1), Minus, IntLiteral(2), Minus, IntLiteral(3)>>)
           /\ stage = "exited" => Returned(-4)
    /\ tokens = ReturnOf(<<IntLiteral(6), Slash, IntLiteral(3), Slash, IntLiteral(2)>>)
           /\ stage = "exited" => Returned(1)

\* return 1 - 2 - 3; has run and returned -4.
C4_Witness ==
    /\ tokens = ReturnOf(<<IntLiteral(1), Minus, IntLiteral(2), Minus, IntLiteral(3)>>)
    /\ Returned(-4)
    /\ ReturnExpr(ast) =
           ExprTerm(TermBinOp("Subtract",
                              TermBinOp("Subtract", TermFactor(FactorIntLiteral(1)),
                                        TermFactor(FactorIntLiteral(2))),
                              TermFactor(FactorIntLiteral(3))))

(***************************************************************************)
(* C5: parse returns an AST exactly for the sentences of the grammar, the  *)
(* whole token sequence accounted for; every other sequence is an error.   *)
(***************************************************************************)
C5_ParseAcceptsExactlyGrammar ==
    ParseReturned => ((stage = "ast") <=> IsProgramSeq(tokens))

(***************************************************************************)
(* Well-typed, complete trees of ast.rs.                                   *)
(***************************************************************************)
RECURSIVE IsFactorNode(_)
RECURSIVE IsTermNode(_)
RECURSIVE IsExprNode(_)

IsFactorNode(n) ==
    CASE n[1] = "Factor::IntLiteral" -> Len(n) = 2 /\ n[2] \in MinI..MaxI
      [] n[1] = "Factor::UnOp" -> Len(n) = 3 /\ n[2] \in UnOp /\ IsFactorNode(n[3])
      [] n[1] = "Factor::BinOp" ->
           Len(n) = 4 /\ n[2] \in BinOp /\ IsFactorNode(n[3]) /\ IsFactorNode(n[4])
      [] n[1] = "Factor::Expr" -> Len(n) = 2 /\ IsExprNode(n[2])
      [] OTHER -> FALSE

IsTermNode(n) ==
    CASE n[1] = "Term::Factor" -> Len(n) = 2 /\ IsFactorNode(n[2])
      [] n[1] = "Term::BinOp" ->
           Len(n) = 4 /\ n[2] \in BinOp /\ IsTermNode(n[3]) /\ IsTermNode(n[4])
      [] OTHER -> FALSE

IsExprNode(n) == n[1] = "Expr::Term" /\ Len(n) = 2 /\ IsTermNode(n[2])

IsProgramNode(n) ==
    /\ n[1] = "Node::Program" /\ Len(n) = 2
    /\ n[2][1] = "Node::Function" /\ Len(n[2]) = 3
    /\ n[2][3][1] = "Node::Statement" /\ Len(n[2][3]) = 3
    /\ n[2][3][2] = "Return"
    /\ IsExprNode(n[2][3][3])

\* The errors parse can return.
ParseErrors ==
    {MissingKeyword("int"), MissingIdentifier, MissingOpenParen, MissingCloseParen,
     MissingOpenBrace, MissingCloseBrace, MissingSemicolon, UnexpectedToken,
     InvalidExpression}

\* What parse returns: one complete tree and no error, or one error and no
\* tree.
IsParseOutcome(r) ==
    IF r.ok THEN r.err = NoError /\ IsProgramNode(r.val)
    ELSE r.val = NoNode /\ r.err \in ParseErrors

AfterReturn == SubSeq(tokens, 7, Len(tokens))

ReturnReached ==
    /\ Len(tokens) >= 6
    /\ IsHeaderSeq(SubSeq(tokens, 1, 5))
    /\ tokens[6] = ReturnKw

\* The token at k of s is absent or is none of `stops`.  A binary operator
\* after an expression continues the expression, so where an expression
\* must have ended the binary operators are among the stops.
EndsBefore(s, k, stops) == k > Len(s) \/ s[k] \notin stops

FailsWith(e) == stage = "failed" /\ err = e

(***************************************************************************)
(* C7: when the tokens are a function header, `{`, `return` and a complete *)
(* Expr, and the token after the expression is absent or is not `;`,       *)
(* parse fails with MissingSemicolon.                                      *)
(***************************************************************************)
C7_MissingSemicolon ==
    ParseReturned /\ ReturnReached =>
        \A k \in 1..Len(AfterReturn) :
           /\ EndsBefore(AfterReturn, k + 1, {Semicolon} \cup BinOpTokens)
           /\ IsExprSeq(SubSeq(AfterReturn, 1, k))
           => FailsWith(MissingSemicolon)

\* int main ( ) { return 2 }  has failed with MissingSemicolon.
C7_Witness ==
    /\ tokens = Header \o <<ReturnKw, IntLiteral(2), CloseBrace>>
    /\ FailsWith(MissingSemicolon)

\* A Factor may start after the tokens s of an expression: s, a literal and
\* some `)` are together an Expr.
RECURSIVE Closers(_)
Closers(k) == IF k = 0 THEN <<>> ELSE <<CloseParen>> \o Closers(k - 1)

FactorPosition(s) ==
    \E k \in 0..Len(s) : IsExprSeq(s \o <<IntLiteral(2)>> \o Closers(k))

(***************************************************************************)
(* C8: an unbalanced `(` yields MissingCloseParen: in the header, when the *)
(* token after `int <identifier> (` is absent or is not `)`; and in an     *)
(* expression, when after a `(` that starts a Factor and a complete Expr   *)
(* the next token is absent or is not `)`.                                 *)
(***************************************************************************)
C8_MissingCloseParen ==
    /\ /\ ParseReturned
       /\ Len(tokens) >= 3
       /\ tokens[1] = IntKw /\ Kind(tokens[2]) = "Identifier" /\ tokens[3] = OpenParen
       /\ EndsBefore(tokens, 4, {CloseParen})
       => FailsWith(MissingCloseParen)
    /\ ParseReturned /\ ReturnReached =>
          \A j \in 1..Len(AfterReturn), k \in 1..Len(AfterReturn) :
             /\ j < k
             /\ AfterReturn[j] = OpenParen
             /\ EndsBefore(AfterReturn, k + 1, {CloseParen} \cup BinOpTokens)
             /\ IsExprSeq(SubSeq(AfterReturn, j + 1, k))
             /\ FactorPosition(SubSeq(AfterReturn, 1, j - 1))
             => FailsWith(MissingCloseParen)

\* int main ( ) { return - ( 2 ;  has failed with MissingCloseParen.
C8_Witness ==
    /\ tokens = Header \o <<ReturnKw, Minus, OpenParen, IntLiteral(2), Semicolon>>
    /\ FailsWith(MissingCloseParen)

(***************************************************************************)
(* C9: when the header, `{` and a complete `return <Expr> ;` have been     *)
(* read and the next token is absent or is not `}`, parse fails with       *)
(* MissingCloseBrace.                                                      *)
(***************************************************************************)
C9_MissingCloseBrace ==
    ParseReturned /\ ReturnReached =>
        \A k \in 2..Len(AfterReturn) :
           /\ AfterReturn[k] = Semicolon
           /\ EndsBefore(AfterReturn, k + 1, {CloseBrace})
           /\ IsExprSeq(SubSeq(AfterReturn, 1, k - 1))
           => FailsWith(MissingCloseBrace)

\* int main ( ) { return 2 ;  has failed with MissingCloseBrace.
C9_Witness ==
    /\ tokens = Header \o <<ReturnKw, IntLiteral(2), Semicolon>>
    /\ FailsWith(MissingCloseBrace)

(***************************************************************************)
(* C10: when the token after the function's `{` is absent or is not the    *)
(* `return` keyword (an identifier such as return0, a `}`), parse fails    *)
(* with UnexpectedToken.                                                   *)
(***************************************************************************)
C10_UnexpectedToken ==
    /\ ParseReturned
    /\ Len(tokens) >= 5
    /\ IsHeaderSeq(SubSeq(tokens, 1, 5))
    /\ EndsBefore(tokens, 6, {ReturnKw})
    => FailsWith(UnexpectedToken)

\* int main ( ) { return0  has failed with UnexpectedToken.
C10_Witness ==
    /\ Len(tokens) >= 6
    /\ SubSeq(tokens, 1, 6) = Header \o <<Identifier(Return0Id)>>
    /\ FailsWith(UnexpectedToken)

\* The tokens that can start a Factor.
StartsFactor(t) == Kind(t) = "IntLiteral" \/ t \in {Bang, Minus, Tilde, OpenParen}

(***************************************************************************)
(* C11: wherever a Factor is expected (after `return`, after a unary       *)
(* operator, after a binary operator, after `(`), a next token that is     *)
(* absent or is not an integer literal, a unary operator or `(` makes      *)
(* parse fail with InvalidExpression.                                      *)
(***************************************************************************)
C11_InvalidExpression ==
    ParseReturned /\ ReturnReached =>
        \A j \in 0..Len(AfterReturn) :
           /\ j < Len(AfterReturn) => ~StartsFactor(AfterReturn[j + 1])
           /\ FactorPosition(SubSeq(AfterReturn, 1, j))
           => FailsWith(InvalidExpression)

\* int main ( ) { return 2 + ; }  has failed with InvalidExpression.
C11_Witness ==
    /\ tokens = Header \o <<ReturnKw, IntLiteral(2), Plus, Semicolon, CloseBrace>>
    /\ FailsWith(InvalidExpression)

(***************************************************************************)
(* Grammar positions.  The header has five, each with the token it takes   *)
(* and the error of a token it does not take.  A token sequence is a       *)
(* viable prefix when some sentence of the grammar starts with it; the     *)
(* earliest defect of a sequence is its first token that ends no viable    *)
(* prefix.                                                                 *)
(***************************************************************************)
HeaderTakes(i, t) ==
    CASE i = 1 -> t = IntKw
      [] i = 2 -> Kind(t) = "Identifier"
      [] i = 3 -> t = OpenParen
      [] i = 4 -> t = CloseParen
      [] i = 5 -> t = OpenBrace

HeaderError(i) ==
    CASE i = 1 -> MissingKeyword("int")
      [] i = 2 -> MissingIdentifier
      [] i = 3 -> MissingOpenParen
      [] i = 4 -> MissingCloseParen
      [] i = 5 -> MissingOpenBrace

\* Position i is the first of the header that tokens do not fill.
FirstHeaderDefect(i) ==
    /\ \A j \in 1..(i - 1) : j <= Len(tokens) /\ HeaderTakes(j, tokens[j])
    /\ i <= Len(tokens) => ~HeaderTakes(i, tokens[i])

ExprPrefix(s) ==
    FactorPosition(s) \/ \E k \in 0..Len(s) : IsExprSeq(s \o Closers(k))

BodyPrefix(x) ==
    \/ ExprPrefix(x)
    \/ /\ Len(x) >= 2
       /\ x[Len(x)] = Semicolon
       /\ IsExprSeq(SubSeq(x, 1, Len(x) - 1))
    \/ /\ Len(x) >= 3
       /\ x[Len(x)] = CloseBrace
       /\ x[Len(x) - 1] = Semicolon
       /\ IsExprSeq(SubSeq(x, 1, Len(x) - 2))

ViablePrefix(s) ==
    IF Len(s) <= 5 THEN \A i \in 1..Len(s) : HeaderTakes(i, s[i])
    ELSE /\ IsHeaderSeq(SubSeq(s, 1, 5))
         /\ s[6] = ReturnKw
         /\ BodyPrefix(SubSeq(s, 7, Len(s)))

EarliestDefect(k) ==
    /\ ~ViablePrefix(SubSeq(tokens, 1, k))
    /\ ViablePrefix(SubSeq(tokens, 1, k - 1))

FailsAs(r) == ~r.ok /\ err = r.err

(***************************************************************************)
(* C12: parse reports the error of the leftmost grammar position that      *)
(* fails, and only that one.  In the header: a first token that is not     *)
(* `int`, or none, gives MissingKeyword("int"); then a non-identifier      *)
(* MissingIdentifier, a non-`(` MissingOpenParen, a non-`)`                *)
(* MissingCloseParen, a non-`{` MissingOpenBrace.  Anywhere: an error     *)
(* that parse reports is the error of the tokens up to their earliest      *)
(* defect, whatever follows it.                                            *)
(***************************************************************************)
C12_LeftmostError ==
    ParseReturned =>
        /\ \A i \in 1..5 : FirstHeaderDefect(i) => FailsWith(HeaderError(i))
        /\ stage = "failed" =>
              \A k \in 1..Len(tokens) :
                 EarliestDefect(k) => FailsAs(parse(SubSeq(tokens, 1, k)))

\* int main ( { return  (both `)` and `}` missing) has failed with
\* MissingCloseParen.
C12_Witness ==
    /\ tokens = <<IntKw, Identifier(MainId), OpenParen, OpenBrace, ReturnKw>>
    /\ FailsWith(MissingCloseParen)

(***************************************************************************)
(* Lexemes of the source text, recognised without the lexer.  A lexeme at  *)
(* the start of the source is maximal: what follows it is not a character  *)
(* that would continue it.                                                 *)
(***************************************************************************)
AllIn(l, class) == \A k \in 1..Len(l) : l[k] \in class

IsDigitRun(l) == l # <<>> /\ AllIn(l, DecDigits)

IsHexLexeme(l, x) ==
    Len(l) >= 3 /\ l[1] = "0" /\ l[2] = x /\ AllIn(Drop(l, 2), HexDigits)

IsOctLexeme(l) == Len(l) >= 2 /\ l[1] = "0" /\ AllIn(Drop(l, 1), OctDigits)

IsDecLexeme(l) == IsDigitRun(l) /\ ~IsOctLexeme(l)

\* The value of a run of digits in a radix, the last digit the units; it
\* fits when it is at most MaxI.
RECURSIVE DigitsValue(_, _)
Shifted(front, d, radix) ==
    IF front.fits /\ front.v <= (MaxI - d) \div radix
    THEN [fits |-> TRUE, v |-> front.v * radix + d]
    ELSE [fits |-> FALSE, v |-> 0]

DigitsValue(digits, radix) ==
    IF digits = <<>> THEN [fits |-> TRUE, v |-> 0]
    ELSE Shifted(DigitsValue(SubSeq(digits, 1, Len(digits) - 1), radix),
                 DigitValue(digits[Len(digits)]), radix)

\* The source starts with the n characters of a lexeme that ends there.
WordEndsAt(n) == n = Len(source) \/ source[n + 1] \notin WordChars

Tokenized == stage # "source"

\* tokenize returned one token `t` for the first n characters and, after
\* it, what it returns for the rest `r`.
OneTokenThen(t, r) ==
    IF r.ok THEN tokens = <<t>> \o r.val
    ELSE stage = "failed" /\ tokens = <<>> /\ err = r.err

LexemeGives(n, t) == OneTokenThen(t, tokenize(Drop(source, n)))

LiteralGives(n, val) == val.fits => LexemeGives(n, IntLiteral(val.v))

(***************************************************************************)
(* C13: an integer literal lexeme within the i32 range tokenizes to one    *)
(* IntLiteral: of the base-16 value when it is `0x` and hex digits, of the *)
(* base-8 value when it is a leading `0` and only octal digits after it,   *)
(* of the base-10 value when it is any other digit run.                    *)
(***************************************************************************)
C13_IntLiteralBases ==
    Tokenized =>
        \A n \in 1..Len(source) :
           WordEndsAt(n) =>
              /\ IsHexLexeme(Take(source, n), "x") =>
                    LiteralGives(n, DigitsValue(SubSeq(source, 3, n), 16))
              /\ IsOctLexeme(Take(source, n)) =>
                    LiteralGives(n, DigitsValue(SubSeq(source, 2, n), 8))
              /\ IsDecLexeme(Take(source, n)) =>
                    LiteralGives(n, DigitsValue(Take(source, n), 10))

(***************************************************************************)
(* C14: `0X` and hex digits tokenizes to one IntLiteral of the base-16     *)
(* value of the digits, as `0x` and the same digits does.                  *)
(***************************************************************************)
C14_UpperCaseHexPrefix ==
    Tokenized =>
        \A n \in 1..Len(source) :
           WordEndsAt(n) /\ IsHexLexeme(Take(source, n), "X") =>
              LiteralGives(n, DigitsValue(SubSeq(source, 3, n), 16))

\* The tokens of the comparison and logical operators.
LessThan == <<"LessThan">>
GreaterThan == <<"GreaterThan">>
DoubleEqual == <<"DoubleEqual">>
BangEqual == <<"BangEqual">>
LessThanEqual == <<"LessThanEqual">>
GreaterThanEqual == <<"GreaterThanEqual">>
DoubleAmpersand == <<"DoubleAmpersand">>
DoubleBar == <<"DoubleBar">>

OneCharOperators == {<<"+">>, <<"*">>, <<"/">>, <<"<">>, <<">">>}
TwoCharOperators ==
    {<<"=", "=">>, <<"!", "=">>, <<"<", "=">>, <<">", "=">>, <<"&", "&">>, <<"|", "|">>}

OperatorToken(l) ==
    CASE l = <<"+">> -> Plus
      [] l = <<"*">> -> Asterisk
      [] l = <<"/">> -> Slash
      [] l = <<"<">> -> LessThan
      [] l = <<">">> -> GreaterThan
      [] l = <<"=", "=">> -> DoubleEqual
      [] l = <<"!", "=">> -> BangEqual
      [] l = <<"<", "=">> -> LessThanEqual
      [] l = <<">", "=">> -> GreaterThanEqual
      [] l = <<"&", "&">> -> DoubleAmpersand
      [] l = <<"|", "|">> -> DoubleBar

\* The operator lexeme the source starts with, the longest first.
StartsWithTwoCharOperator == Len(source) >= 2 /\ Take(source, 2) \in TwoCharOperators

StartsWithOperator(n) ==
    /\ n <= Len(source)
    /\ \/ n = 2 /\ StartsWithTwoCharOperator
       \/ n = 1 /\ Take(source, 1) \in OneCharOperators /\ ~StartsWithTwoCharOperator

(***************************************************************************)
(* C15: each operator lexeme tokenizes to one token of its own kind:       *)
(* + * / < > to Plus, Asterisk, Slash, LessThan, GreaterThan, and the      *)
(* two-character == != <= >= && ||, the longest first, to DoubleEqual,     *)
(* BangEqual, LessThanEqual, GreaterThanEqual, DoubleAmpersand, DoubleBar. *)
(***************************************************************************)
C15_OperatorTokens ==
    Tokenized =>
        \A n \in 1..2 :
           StartsWithOperator(n) => LexemeGives(n, OperatorToken(Take(source, n)))

\* The first n characters of the source are a word, [A-Za-z]\w*.
IsWord(l) == l # <<>> /\ l[1] \in LowerCase \cup UpperCase /\ AllIn(l, WordChars)

WordToken(l) ==
    CASE l = <<"i", "n", "t">> -> IntKw
      [] l = <<"r", "e", "t", "u", "r", "n">> -> ReturnKw
      [] OTHER -> Identifier(l)

(***************************************************************************)
(* C16: a maximal run [A-Za-z]\w* tokenizes to the `int` keyword only when *)
(* it is exactly int, to the `return` keyword only when it is exactly      *)
(* return, and to one Identifier carrying the whole run otherwise.         *)
(***************************************************************************)
C16_KeywordOrIdentifier ==
    Tokenized =>
        \A n \in 1..Len(source) :
           WordEndsAt(n) /\ IsWord(Take(source, n)) =>
              LexemeGives(n, WordToken(Take(source, n)))

\* return0 has tokenized to one Identifier.
C16_Witness ==
    /\ source = Return0Id
    /\ Tokenized
    /\ tokens = <<Identifier(Return0Id)>>

\* The symbols of the language, and the characters that end the text of an
\* invalid identifier.
SymbolChars == {"(", ")", "{", "}", ";", "-", "~", "!", "+", "*", "/", "<", ">"}
RunStops == {"(", ")", "{", "}"} \cup Whitespace

StartsWithSymbol(s) ==
    \/ s[1] \in SymbolChars
    \/ Len(s) >= 2 /\ Take(s, 2) \in TwoCharOperators

\* s starts with no whitespace, symbol, numeric literal, identifier or
\* keyword.
StartsNothing(s) ==
    /\ s # <<>>
    /\ s[1] \notin Whitespace \cup DecDigits \cup LowerCase \cup UpperCase
    /\ ~StartsWithSymbol(s)

\* The longest run at the start of s of characters outside RunStops.
InvalidRun(s) == Take(s, RunLength(s, {s[k] : k \in 1..Len(s)} \ RunStops))

\* A lexeme may start at k: nothing before it, or a character before it
\* that the character at k does not continue.
LexemeStart(k) ==
    k = 1 \/ source[k - 1] \notin WordChars \/ source[k] \notin WordChars

(***************************************************************************)
(* C17: when the input at the current position starts with no whitespace,  *)
(* known symbol, numeric literal, identifier or keyword, tokenize fails    *)
(* with InvalidIdentifier(text), text the longest run from that position   *)
(* of characters that are neither whitespace nor one of ( ) { }, and       *)
(* returns no tokens.                                                      *)
(***************************************************************************)
C17_InvalidIdentifierText ==
    Tokenized =>
        \A k \in 1..Len(source) :
           /\ StartsNothing(Drop(source, k - 1))
           /\ LexemeStart(k)
           /\ tokenize(Take(source, k - 1)).ok
           => /\ FailsWith(InvalidIdentifier(InvalidRun(Drop(source, k - 1))))
              /\ tokens = <<>>

\* int $foo  has failed with InvalidIdentifier("$foo").
C17_Witness ==
    /\ source = <<"i", "n", "t", " ", "$", "f", "o", "o">>
    /\ FailsWith(InvalidIdentifier(<<"$", "f", "o", "o">>))
    /\ tokens = <<>>

\* The values of error.rs SyntaxError.
IsSyntaxError(e) ==
    e[1] \in {"Unknown", "MissingOpenParen", "MissingCloseParen", "MissingOpenBrace",
              "MissingCloseBrace", "MissingSemicolon", "MissingIdentifier",
              "MissingKeyword", "InvalidIdentifier", "InvalidExpression",
              "UnexpectedToken"}

(***************************************************************************)
(* C18: every failure of tokenize and of parse is a SyntaxError value; no  *)
(* input, a digit run outside the i32 range included, makes either stage   *)
(* fail with an error of another kind.                                     *)
(***************************************************************************)
C18_ClosedTaxonomy == stage = "failed" => IsSyntaxError(err)

(***************************************************************************)
(* C19..C20: the driver around the front end (compiler.rs compile).        *)
(***************************************************************************)
\* What the front end returns on a readable file: the error of tokenize if
\* it fails, the result of parse otherwise.
FrontEndResult(t) == IF t.ok THEN parse(t.val) ELSE t
FrontEndFails(readable, r) == ~readable \/ ~r.ok
FrontEndError(readable, r) == IF readable THEN r.err ELSE IoError("read")

\* Nothing has been written, started or removed: env is one of the initial
\* environments (every step that touches a file or gcc counts it).
Untouched == env \in Envs

\* C19: when reading, tokenizing or parsing fails, compile returns the error
\* of the first failing stage, no later stage has run (no tree after a failed
\* tokenize, no code) and the environment is as it was: no assembly file
\* written, gcc not started, no executable produced.  generate has no
\* failing path.
C19_FailFast ==
    \A r \in {FrontEndResult(tokenize(source))} :
        FrontEndFails(env.input, r) =>
            /\ Untouched
            /\ code = <<>>
            /\ stage \in {"init", "source", "tokens", "failed"}
            /\ stage = "failed" => err = FrontEndError(env.input, r)
            /\ ~env.input => tokens = <<>> /\ ast = NoNode /\ stage \in {"init", "failed"}
            /\ stage = "failed" /\ tokens = <<>> => ast = NoNode

\* A parse error returned with an executable of an earlier build in place.
C19_Witness ==
    /\ stage = "failed"
    /\ env.input
    /\ tokens # <<>>
    /\ err \in ParseErrors
    /\ env.exe_file = "stale"
    /\ env.asm_file = "absent"
    /\ Untouched

\* compile has returned.
Returned_compile == stage \in {"done", "failed"}

\* C20: whenever the assembly file was written, compile has tried to delete
\* it by the time it returns, on success and on failure alike; a file that
\* is already absent is not an error, any other failure to delete is the
\* error compile returns.
C20_AssemblyFileDeleted ==
    /\ Returned_compile /\ env.wrote => env.removes >= 1
    /\ FailsWith(IoError("remove")) => env.asm_file # "absent"
    /\ Returned_compile /\ env.removes >= 1 /\ env.asm_file # "absent"
          => FailsWith(IoError("remove"))

\* The two parts of C20 about the deletion itself.
C20_DeletionOutcome ==
    /\ FailsWith(IoError("remove")) => env.asm_file # "absent"
    /\ Returned_compile /\ env.removes >= 1 /\ env.asm_file # "absent"
          => FailsWith(IoError("remove"))

\* gcc could not be started: compile has returned with the file in place.
C20_LeftBehind ==
    /\ FailsWith(IoError("spawn"))
    /\ env.wrote /\ env.asm_file = "new" /\ env.removes = 0

(***************************************************************************)
(* C21: the diagnostics of the external toolchain (compiler.rs 46-65).     *)
(***************************************************************************)
\* gcc has run and written something to its standard error.
Diagnosed == env.gcc >= 1 /\ env.stderr # <<>>

\* C21: whenever gcc leaves a non-empty standard error, compile returns a
\* failure that carries that text and is not a SyntaxError; compile returns
\* success only when the standard error is empty.
C21_ToolchainDiagnostics ==
    /\ Returned_compile /\ Diagnosed =>
          /\ stage = "failed"
          /\ err = Message(env.stderr)
          /\ ~IsSyntaxError(err)
    /\ stage = "done" => env.stderr = <<>>

\* The part of C21 the code keeps: a success has an empty standard error,
\* and a diagnosed run fails with the text unless the deletion failed first
\* or the text is not UTF-8.
C21_DiagnosticsWhenDeleted ==
    /\ stage = "done" => env.stderr = <<>>
    /\ Returned_compile /\ Diagnosed => stage = "failed" /\ ~IsSyntaxError(err)
    /\ Returned_compile /\ Diagnosed /\ env.stderr # NotUtf8 /\ err # IoError("remove")
          => err = Message(env.stderr)

(***************************************************************************)
(* The layout of the emitted code, read off the tree without the           *)
(* generator: the number of lines of a node's code, and the place of each  *)
(* operand's code, push, pop and operator instructions in a sequence.      *)
(***************************************************************************)
RECURSIVE CodeLen(_)
CodeLen(n) ==
    CASE n[1] \in {"Expr::Term", "Term::Factor", "Factor::Expr"} -> CodeLen(n[2])
      [] n[1] = "Factor::IntLiteral" -> 1
      [] n[1] = "Factor::UnOp" -> CodeLen(n[3]) + Len(generate_unop(n[2]))
      [] n[1] \in {"Term::BinOp", "Factor::BinOp"} ->
           CodeLen(n[3]) + 1 + CodeLen(n[4]) + 1 + Len(generate_combine(n[2]))

IsPush(ins) == ins = <<"push", Reg("rax")>>
IsPop(ins) == ins = <<"pop", Reg("rcx")>>

\* c holds, from line p on, the code of n in post-order.
RECURSIVE PostOrderAt(_, _, _)
PostOrderAt(n, c, p) ==
    CASE n[1] \in {"Expr::Term", "Term::Factor", "Factor::Expr"} -> PostOrderAt(n[2], c, p)
      [] n[1] = "Factor::IntLiteral" ->
           p <= Len(c) /\ c[p] = <<"movl", Imm(n[2]), Reg("eax")>>
      [] n[1] = "Factor::UnOp" ->
           /\ p + CodeLen(n) - 1 <= Len(c)
           /\ PostOrderAt(n[3], c, p)
           /\ SubSeq(c, p + CodeLen(n[3]), p + CodeLen(n) - 1) = generate_unop(n[2])
      [] n[1] \in {"Term::BinOp", "Factor::BinOp"} ->
           /\ p + CodeLen(n) - 1 <= Len(c)
           /\ PostOrderAt(n[3], c, p)
           /\ IsPush(c[p + CodeLen(n[3])])
           /\ PostOrderAt(n[4], c, p + CodeLen(n[3]) + 1)
           /\ IsPop(c[p + CodeLen(n[3]) + 1 + CodeLen(n[4])])
           /\ SubSeq(c, p + CodeLen(n[3]) + CodeLen(n[4]) + 2, p + CodeLen(n) - 1)
                 = generate_combine(n[2])

Generated == stage \in {"asm", "running", "exited"}

(***************************************************************************)
(* C22: the code emitted for a binary node (a, op, b) is a's code, one     *)
(* push of the accumulator, b's code, one pop into the secondary register, *)
(* then the instructions of op, a's code before b's; for a unary node the  *)
(* operand's code comes before the operator's instructions.  This holds at *)
(* every node of the tree.                                                 *)
(***************************************************************************)
C22_PostOrderEmission ==
    stage = "asm" =>
        /\ Len(code) = CodeLen(ReturnExpr(ast)) + 3
        /\ PostOrderAt(ReturnExpr(ast), code, 3)

\* 1 - (MinI / 2): the code of the literal 1, the push, the code of the
\* quotient, the pop, the two instructions of Subtract.
C22_Witness ==
    /\ stage = "asm"
    /\ ReturnExpr(ast) =
           ExprTerm(TermBinOp("Subtract", TermFactor(FactorIntLiteral(1)),
                              TermFactor(FactorBinOp("Divide", FactorIntLiteral(MinI),
                                                     FactorIntLiteral(2)))))
    /\ IsPush(code[4])
    /\ IsPop(code[13])
    /\ Len(code) = 16

(***************************************************************************)
(* Logical-not on the machine.                                             *)
(***************************************************************************)
IsNotOf(e) == e[1] = "Expr::Term" /\ e[2][1] = "Term::Factor"
                 /\ e[2][2][1] = "Factor::UnOp" /\ e[2][2][2] = "LogicalNegate"
NotOperand(e) == e[2][2][3]

Truth(b) == IF b THEN 1 ELSE 0

\* The instruction the machine has just executed (the code is a straight
\* line).
JustExecuted(ins) ==
    /\ stage = "running"
    /\ cpu.ip > 1 /\ cpu.ip <= Len(code)
    /\ code[cpu.ip - 1] = ins

(***************************************************************************)
(* C23: the code of `!x` leaves in the accumulator 1 when x evaluated to 0 *)
(* and 0 otherwise, as a full 32-bit value: after the set-on-equal the     *)
(* accumulator is 0 or 1 and is 1 exactly when the comparison found zero;  *)
(* the comparison looks at all 32 bits of x; the zeroing in between leaves *)
(* the comparison's outcome as it was, so at the ret of `return !x;` the   *)
(* accumulator is 1 if x = 0 and 0 if not.                                 *)
(***************************************************************************)
C23_LogicalNot ==
    /\ JustExecuted(<<"sete", Reg("al")>>) =>
          cpu.eax \in {0, 1} /\ (cpu.eax = 1 <=> cpu.zf)
    /\ Generated /\ IsNotOf(ReturnExpr(ast)) =>
          \A x \in {Value(NotOperand(ReturnExpr(ast)))} :
              /\ AtRet => x.def /\ cpu.eax = Truth(x.v = 0)
              /\ JustExecuted(<<"cmpl", Imm(0), Reg("eax")>>) /\ cpu.ip + 2 = Len(code)
                    => (cpu.zf <=> x.v = 0)
              /\ stage = "exited" /\ x.def => cpu.status = "returned" /\ cpu.eax = Truth(x.v = 0)

\* !MinI has returned 0: the low byte of MinI is zero, the register is not.
C23_Witness ==
    /\ stage = "exited"
    /\ cpu.status = "returned"
    /\ IsNotOf(ReturnExpr(ast))
    /\ NotOperand(ReturnExpr(ast)) = FactorIntLiteral(MinI)
    /\ cpu.eax = 0

\* !(2 - 2) has returned 1.
C23_WitnessZero ==
    /\ stage = "exited"
    /\ cpu.status = "returned"
    /\ IsNotOf(ReturnExpr(ast))
    /\ NotOperand(ReturnExpr(ast)) =
          FactorBinOp("Subtract", FactorIntLiteral(2), FactorIntLiteral(2))
    /\ cpu.eax = 1

(***************************************************************************)
(* The frame of the emitted text.                                          *)
(***************************************************************************)
FunctionId(tree) == tree[2][2]

LinesOf(c, mnemonic) == {k \in 1..Len(c) : c[k][1] = mnemonic}

SymbolsOf(c) == {c[k][2] : k \in LinesOf(c, ".globl") \cup LinesOf(c, "label")}

(***************************************************************************)
(* C24: for a program whose function is named id, the text generate        *)
(* returns is the line `.globl _id`, the line `_id:`, the instructions of  *)
(* the expression and a last line `ret`; `_id` is the only symbol          *)
(* exported and the only one defined, and the only `ret` is the last line. *)
(***************************************************************************)
C24_FunctionFrame ==
    Generated =>
        /\ Len(code) = CodeLen(ReturnExpr(ast)) + 3
        /\ code[1] = <<".globl", Sym(FunctionId(ast))>>
        /\ code[2] = <<"label", Sym(FunctionId(ast))>>
        /\ PostOrderAt(ReturnExpr(ast), code, 3)
        /\ code[Len(code)] = <<"ret">>
        /\ LinesOf(code, ".globl") = {1}
        /\ LinesOf(code, "label") = {2}
        /\ LinesOf(code, "ret") = {Len(code)}
        /\ SymbolsOf(code) = {Sym(FunctionId(ast))}

\* The test basic_function: foo returning 0.
C24_Witness ==
    /\ stage = "asm"
    /\ ast = FooReturning(ExprTerm(TermFactor(FactorIntLiteral(0))))
    /\ code = << <<".globl", Sym(FooId)>>, <<"label", Sym(FooId)>>,
                 <<"movl", Imm(0), Reg("eax")>>, <<"ret">> >>

(***************************************************************************)
(* C25: calls side by side.                                                *)
(***************************************************************************)
\* What a call returns when it runs alone on its input: the error of the
\* front end, or success.
AloneResult(r) == IF r.ok THEN Success ELSE r.err

HandedToGcc(k) == calls[k].pc \in {"remove", "return"} \/ calls[k].stderr # <<>>
                     \/ calls[k].result = Success

\* C25: two calls of compile on distinct input files do not interfere: in
\* every interleaving of their steps the assembly file a call hands to gcc
\* holds the code that call generated, and the call returns what it would
\* have returned alone.
C25_NoInterference ==
    stage = "calls" =>
        \A k \in DOMAIN calls :
            /\ HandedToGcc(k) => calls[k].handed = AsmFile(calls[k].code)
            /\ calls[k].pc = "done" =>
                  \A r \in {front_end(calls[k].text)} : calls[k].result = AloneResult(r)

\* The paths of a call, spelled out: its input, the name with the extension
\* replaced by `s`, the name without the extension.
PathsOf(k) ==
    {calls[k].input, file_stem(calls[k].input) \o <<"s">>, file_stem(calls[k].input)}

\* C25, amended: two calls of compile such that no path of one (input,
\* assembly file, executable) is a path of the other do not interfere: in
\* every interleaving of their steps the assembly file a call hands to gcc
\* holds the code that call generated, and the call returns what it would
\* have returned alone.
C25_DisjointPaths ==
    stage = "calls" /\ Len(calls) = 2 /\ PathsOf(1) \cap PathsOf(2) = {}
    => \A k \in DOMAIN calls :
            /\ HandedToGcc(k) => calls[k].handed = AsmFile(calls[k].code)
            /\ calls[k].pc = "done" =>
                  \A r \in {front_end(calls[k].text)} : calls[k].result = AloneResult(r)

\* a.c and b.c side by side: the second call has run gcc on its own code
\* between the write and the gcc of the first, and the two codes differ.
C25_Witness ==
    /\ stage = "calls" /\ Len(calls) = 2
    /\ calls[1].input = <<"a", "c">> /\ calls[2].input = <<"b", "c">>
    /\ calls[1].pc = "gcc"
    /\ calls[2].pc = "remove"
    /\ calls[2].handed = AsmFile(calls[2].code)
    /\ calls[1].code # calls[2].code
    /\ fs[<<"a", "s">>] = AsmFile(calls[1].code)

\* a.c and a.i side by side: gcc was handed the code of the other call.
C25_Aliased ==
    /\ stage = "calls" /\ Len(calls) = 2
    /\ calls[1].input = <<"a", "c">> /\ calls[2].input = <<"a", "i">>
    /\ calls[1].pc = "done" /\ calls[1].result = Success
    /\ calls[1].handed = AsmFile(calls[2].code)
    /\ calls[1].code # calls[2].code

(***************************************************************************)
(* C29: the input file of a call.                                          *)
(***************************************************************************)
\* The input file of call k holds the text it held when the call began.
InputIntact(k) == fs[calls[k].input] = TextFile(calls[k].text)

\* C29: compile never writes to, overwrites or deletes its input file: the
\* assembly path (extension replaced by `s`) and the executable path
\* (extension removed) both differ from the input path, for every input
\* path, and the input file stays as it was.
C29_InputUntouched ==
    stage = "calls" =>
        \A k \in DOMAIN calls :
            /\ get_temp_assembly_file(calls[k].input) # calls[k].input
            /\ get_exe_file(calls[k].input) # calls[k].input
            /\ InputIntact(k)

\* The part of C29 the code keeps: an input whose name has an extension
\* other than `s` stays as it was.
C29_SourceExtension ==
    stage = "calls" =>
        \A k \in DOMAIN calls :
            has_extension(calls[k].input) /\ calls[k].input[Len(calls[k].input)] # "s"
                => /\ get_temp_assembly_file(calls[k].input) # calls[k].input
                   /\ get_exe_file(calls[k].input) # calls[k].input
                   /\ InputIntact(k)

\* compile on a.s has returned success and a.s is gone.
C29_InputDeleted ==
    /\ stage = "calls"
    /\ calls[1].input = <<"a", "s">>
    /\ calls[1].result = Success
    /\ fs[<<"a", "s">>] = Absent

(***************************************************************************)
(* Whitespace between lexemes.  A position of the source is a boundary     *)
(* when it is the start or the end, or when the character on one side of   *)
(* it is whitespace or a one-character symbol.                             *)
(***************************************************************************)
AsciiWhitespace == {" ", "\t", "\n"}
OneCharSymbols == {"(", ")", "{", "}", ";", "-", "~", "!"}

Boundary(s, p) ==
    \/ p = 0 \/ p = Len(s)
    \/ s[p] \in Whitespace \cup OneCharSymbols
    \/ s[p + 1] \in Whitespace \cup OneCharSymbols

Inserted(s, p, w) == SubSeq(s, 1, p) \o <<w>> \o SubSeq(s, p + 1, Len(s))

\* tokenize has returned an error (the failures of parse are ParseErrors).
TokenizeFailed == stage = "failed" /\ err \notin ParseErrors

\* Whitespace added at any boundary leaves the tokens as they are.
SeparatesOnly ==
    stage = "tokens" =>
        \A p \in 0..Len(source), w \in AsciiWhitespace :
            Boundary(source, p) =>
                \A r \in {tokenize(Inserted(source, p, w))} : r.ok /\ r.val = tokens

(***************************************************************************)
(* C26: whitespace produces no tokens and only separates lexemes: the      *)
(* empty input and every input made only of whitespace tokenize to the     *)
(* empty sequence, and a space, tab or newline added before, after or      *)
(* between the lexemes of an input leaves its token sequence unchanged.    *)
(***************************************************************************)
C26_WhitespaceSeparates ==
    /\ Tokenized /\ AllIn(source, Whitespace) => ~TokenizeFailed /\ tokens = <<>>
    /\ SeparatesOnly

\* The part of C26 the code keeps: the same with whitespace characters of
\* one byte.
C26_OneByteWhitespace ==
    /\ Tokenized /\ AllIn(source, Whitespace \ {"NBSP"}) => ~TokenizeFailed /\ tokens = <<>>
    /\ SeparatesOnly

\* A no-break space alone: tokenize has panicked.
C26_Panicked ==
    stage = "failed" /\ source = <<"NBSP">> /\ err[1] = "Panic"

(***************************************************************************)
(* Precedence tiers in a tree.  An additive node is a Term::BinOp (built   *)
(* by the loop of parse_expression), a multiplicative node a Factor::BinOp *)
(* (built by the loop of parse_term).                                      *)
(***************************************************************************)
TermTags == {"Term::Factor", "Term::BinOp"}
FactorTags == {"Factor::Expr", "Factor::UnOp", "Factor::IntLiteral", "Factor::BinOp"}

RECURSIVE Tiered(_)
Tiered(n) ==
    CASE n[1] \in {"Expr::Term", "Term::Factor", "Factor::Expr"} -> Tiered(n[2])
      [] n[1] = "Factor::IntLiteral" -> TRUE
      [] n[1] = "Factor::UnOp" -> n[3][1] \in FactorTags /\ Tiered(n[3])
      [] n[1] = "Term::BinOp" ->
           /\ n[2] \in {"Add", "Subtract"}
           /\ n[3][1] \in TermTags /\ n[4][1] \in TermTags
           /\ Tiered(n[3]) /\ Tiered(n[4])
      [] n[1] = "Factor::BinOp" ->
           /\ n[2] \in {"Multiply", "Divide"}
           /\ n[3][1] \in FactorTags /\ n[4][1] \in FactorTags
           /\ n[3][1] # "Term::BinOp" /\ n[4][1] # "Term::BinOp"
           /\ Tiered(n[3]) /\ Tiered(n[4])
      [] OTHER -> FALSE

(***************************************************************************)
(* C27: in every tree parse returns, an additive node carries Add or       *)
(* Subtract and has Terms as operands, a multiplicative node carries       *)
(* Multiply or Divide and has Factors as operands, and an additive node is *)
(* an operand of a multiplicative node only inside a parenthesised Expr.   *)
(***************************************************************************)
C27_PrecedenceTiers ==
    stage = "ast" => Tiered(ReturnExpr(ast))

\* (1 + 2) * 3 - 4: an additive node over a multiplicative node whose left
\* operand is a parenthesised additive node.
C27_Witness ==
    /\ stage = "ast"
    /\ ReturnExpr(ast) =
         ExprTerm(TermBinOp("Subtract",
             TermFactor(FactorBinOp("Multiply",
                 FactorExpr(ExprTerm(TermBinOp("Add", TermFactor(FactorIntLiteral(1)),
                                               TermFactor(FactorIntLiteral(2))))),
                 FactorIntLiteral(3))),
             TermFactor(FactorIntLiteral(4))))

(***************************************************************************)
(* The machine stack under the generated code.                             *)
(***************************************************************************)
Max(a, b) == IF a >= b THEN a ELSE b

\* How deep binary operators nest in a tree.
RECURSIVE NestingDepth(_)
NestingDepth(n) ==
    CASE n[1] \in {"Expr::Term", "Term::Factor", "Factor::Expr"} -> NestingDepth(n[2])
      [] n[1] = "Factor::IntLiteral" -> 0
      [] n[1] = "Factor::UnOp" -> NestingDepth(n[3])
      [] n[1] \in {"Term::BinOp", "Factor::BinOp"} ->
           1 + Max(NestingDepth(n[3]), NestingDepth(n[4]))

\* The number of values pushed above the return address.
StackDepth == Len(cpu.stack) - 1

(***************************************************************************)
(* C28: in the code generate emits, pushes and pops are balanced: no pop   *)
(* finds the stack at or below its depth at entry, the depth above the     *)
(* entry depth never exceeds the nesting depth of the binary operators,    *)
(* and at the final ret the stack pointer is at its entry value, so that   *)
(* ret pops the caller's return address.                                   *)
(***************************************************************************)
C28_BalancedStack ==
    stage \in {"running", "exited"} =>
        /\ cpu.status # "smashed"
        /\ cpu.status \in {"running", "trap"} =>
              /\ cpu.stack # <<>>
              /\ cpu.stack[1] = <<"ret">>
              /\ \A k \in 2..Len(cpu.stack) : cpu.stack[k][1] = "val"
              /\ StackDepth <= NestingDepth(ReturnExpr(ast))
        /\ AtRet => StackDepth = 0
        /\ cpu.status = "returned" => cpu.stack = <<>>

\* Two values are on the stack while the inner operator of a tree of
\* depth two is evaluated.
C28_Witness ==
    /\ stage = "running"
    /\ StackDepth = 2
    /\ NestingDepth(ReturnExpr(ast)) = 2

\* The same tree has returned with the stack as at entry.
C28_WitnessReturned ==
    /\ stage = "exited"
    /\ cpu.status = "returned"
    /\ cpu.stack = <<>>
    /\ NestingDepth(ReturnExpr(ast)) = 2

(***************************************************************************)
(* The recursion of tokenize, one call at a time (lexer.rs 82-116): what   *)
(* the call on `input` consumes before it calls tokenize again.  `stops`   *)
(* tells that the call returns an error without a further call, `n` is the *)
(* number of characters before the slice handed on, `sliced` whether that  *)
(* slice starts on a character boundary, `tok` the token the call puts in  *)
(* front (NoToken for whitespace).                                         *)
(***************************************************************************)
StepOf(n, tok, sliced) == [stops |-> FALSE, n |-> n, tok |-> tok, sliced |-> sliced]
Stopped == [stops |-> TRUE, n |-> 0, tok |-> NoToken, sliced |-> TRUE]

const_or_id_step(input, int_match, kw) ==
    IF int_match.matched
    THEN IF int_match.ok THEN StepOf(int_match.end, IntLiteral(int_match.val), TRUE)
         ELSE Stopped
    ELSE IF kw.ok THEN StepOf(Len(input) - Len(kw.rest), kw.tok, TRUE)
    ELSE Stopped

tokenize_step(input) ==
    IF char_to_token(Head(input)) # NoToken
    THEN StepOf(1, char_to_token(Head(input)), TRUE)
    ELSE IF Head(input) \in Whitespace
    THEN StepOf(1, NoToken, ByteLen(Head(input)) = 1)
    ELSE const_or_id_step(input, tokenize_int_literal(input), get_keyword_or_id(input))

\* The inputs of all the calls of tokenize made for `input`, itself included.
RECURSIVE CallInputs(_)
next_inputs(input, step) ==
    IF step.stops \/ ~step.sliced THEN {} ELSE CallInputs(Drop(input, step.n))

CallInputs(input) ==
    IF input = <<>> THEN {input} ELSE {input} \cup next_inputs(input, tokenize_step(input))

IsSuffix(s, t) == Len(s) <= Len(t) /\ SubSeq(t, Len(t) - Len(s) + 1, Len(t)) = s

\* The call on s consumes at least one character and hands on a well-formed
\* suffix, unless it returns an error.
Consumes(s, step) ==
    step.stops \/ (step.n >= 1 /\ step.n <= Len(s) /\ step.sliced)

\* The tokens of the call on s are the tail of the whole output, the token
\* of its own lexeme first.
InOrder(s, step, r) ==
    r.ok => /\ IsSuffix(r.val, tokens)
            /\ step.tok # NoToken => r.val # <<>> /\ Head(r.val) = step.tok
            /\ step.tok = NoToken => r.val = tokenize(Drop(s, step.n)).val

Terminated == Tokenized /\ ~(stage = "failed" /\ err[1] = "Panic")

(***************************************************************************)
(* C30: tokenize terminates on every input with a token sequence or an     *)
(* error: each call consumes at least one character and calls tokenize on  *)
(* a strictly shorter, well-formed suffix, and the tokens are in the order *)
(* of their lexemes.                                                       *)
(***************************************************************************)
C30_TokenizeTerminates ==
    Tokenized =>
        /\ Terminated
        /\ \A s \in CallInputs(source) \ {<<>>} : Consumes(s, tokenize_step(s))
        /\ stage = "tokens" =>
              \A s \in CallInputs(source) \ {<<>>} :
                  InOrder(s, tokenize_step(s), tokenize(s))

\* The part of C30 the code keeps: the same on inputs whose whitespace
\* characters are one byte long.
C30_OneByteCharacters ==
    Tokenized /\ AllIn(source, {source[k] : k \in 1..Len(source)} \ {"NBSP"}) =>
        /\ Terminated
        /\ \A s \in CallInputs(source) \ {<<>>} : Consumes(s, tokenize_step(s))
        /\ stage = "tokens" =>
              \A s \in CallInputs(source) \ {<<>>} :
                  InOrder(s, tokenize_step(s), tokenize(s))

\* `int` and `main` around a no-break space: the call on the space has
\* sliced inside the character.
C30_SlicedInsideCharacter ==
    /\ stage = "failed"
    /\ source = <<"i", "n", "t", "NBSP", "m", "a", "i", "n">>
    /\ err[1] = "Panic"

====
